---------------------------- MODULE Spec2Model ----------------------------
(***************************************************************************)
(* A model of dockadvisor's rule engine (package parse): ParseDockerfile,  *)
(* its cross-instruction passes, its per-instruction validators and        *)
(* calculateScore.                                                         *)
(*                                                                         *)
(* Text that the code inspects character by character (keywords, argument  *)
(* tokens, flags, raw lines) is a sequence of one-character strings.  Text *)
(* that the code only copies (rule descriptions, documentation URLs) is a  *)
(* tuple of fragments.                                                     *)
(***************************************************************************)
EXTENDS Integers, Sequences, FiniteSets, TLC

VARIABLES
    dockerfile,   \* the input: a sequence of indices into Catalog
    warnings,     \* result.Warnings of parser.Parse: indices into WarningCatalog
    pc,           \* position inside ParseDockerfile
    idx,          \* index of the child visited by the validator loop
    parseRules,   \* the local slice parseRules
    results,      \* the values returned so far, one per call
    action,       \* the shell variables and outputs of entrypoint.sh
    conc          \* the package variables of the secrets check and its callers

vars == <<dockerfile, warnings, pc, idx, parseRules, results, action, conc>>

\* The workflow wrapper and the concurrent callers are not running.
Idle == action = <<>> /\ conc = <<>>

---------------------------------------------------------------------------
(* Bounds of the model.                                                    *)

MaxRules == 8
MaxInstr == 2
MaxStages == 4
MaxWarnings == 1
MaxCalls == 2
MaxMulti == 4
MaxVars == 4
MaxPlatform == 3
MaxArgFrom == 3
MaxDefaultArg == 2
MaxExec == 3
MaxShell == 3
MaxCasing == 4

---------------------------------------------------------------------------
(* package strings, on sequences of characters.                            *)

UpperAlpha == <<"A","B","C","D","E","F","G","H","I","J","K","L","M",
                "N","O","P","Q","R","S","T","U","V","W","X","Y","Z">>
LowerAlpha == <<"a","b","c","d","e","f","g","h","i","j","k","l","m",
                "n","o","p","q","r","s","t","u","v","w","x","y","z">>
Digits == {"0","1","2","3","4","5","6","7","8","9"}
UpperSet == {UpperAlpha[k] : k \in 1..26}
LowerSet == {LowerAlpha[k] : k \in 1..26}
Letters == UpperSet \cup LowerSet

UpperOf == [c \in LowerSet |-> UpperAlpha[CHOOSE k \in 1..26 : LowerAlpha[k] = c]]
LowerOf == [c \in UpperSet |-> LowerAlpha[CHOOSE k \in 1..26 : UpperAlpha[k] = c]]

ToUpper(s) == [k \in 1..Len(s) |-> IF s[k] \in LowerSet THEN UpperOf[s[k]] ELSE s[k]]
ToLower(s) == [k \in 1..Len(s) |-> IF s[k] \in UpperSet THEN LowerOf[s[k]] ELSE s[k]]

HasPrefix(s, p) == Len(p) <= Len(s) /\ SubSeq(s, 1, Len(p)) = p
HasSuffix(s, p) == Len(p) <= Len(s) /\ SubSeq(s, Len(s) - Len(p) + 1, Len(s)) = p
TrimPrefix(s, p) == IF HasPrefix(s, p) THEN SubSeq(s, Len(p) + 1, Len(s)) ELSE s

\* strings.Index: the 0-based offset of the first occurrence of p, or -1.
Index(s, p) ==
    LET hits == {k \in 1..(Len(s) - Len(p) + 1) : SubSeq(s, k, k + Len(p) - 1) = p}
    IN  IF hits = {} THEN -1
        ELSE (CHOOSE k \in hits : \A j \in hits : k <= j) - 1
Contains(s, p) == Index(s, p) # -1

\* strings.Count for a one-character separator.
Count(s, c) == Cardinality({k \in 1..Len(s) : s[k] = c})

WhiteSpace == {" ", "\t", "\n", "\r"}

\* strings.TrimRight(s, cutset) and strings.TrimSpace.
RECURSIVE TrimRight(_, _)
TrimRight(s, cutset) ==
    IF s # <<>> /\ s[Len(s)] \in cutset
    THEN TrimRight(SubSeq(s, 1, Len(s) - 1), cutset) ELSE s
RECURSIVE TrimLeft(_, _)
TrimLeft(s, cutset) ==
    IF s # <<>> /\ s[1] \in cutset THEN TrimLeft(Tail(s), cutset) ELSE s
TrimSpace(s) == TrimLeft(TrimRight(s, WhiteSpace), WhiteSpace)

\* strings.Split(s, sep) for a one-character separator.
RECURSIVE Split(_, _)
Split(s, c) ==
    LET hits == {k \in 1..Len(s) : s[k] = c}
    IN  IF hits = {} THEN <<s>>
        ELSE LET k == CHOOSE h \in hits : \A j \in hits : h <= j
             IN  <<SubSeq(s, 1, k - 1)>> \o Split(SubSeq(s, k + 1, Len(s)), c)

\* strings.SplitN(s, sep, 2) for a one-character separator.
SplitN2(s, c) ==
    LET hits == {k \in 1..Len(s) : s[k] = c}
    IN  IF hits = {} THEN <<s>>
        ELSE LET k == CHOOSE h \in hits : \A j \in hits : h <= j
             IN  <<SubSeq(s, 1, k - 1), SubSeq(s, k + 1, Len(s))>>

\* strings.Fields: the maximal runs of non-space characters.
RECURSIVE Fields(_)
Fields(s) ==
    LET t == TrimLeft(s, WhiteSpace)
        stops == {k \in 1..Len(t) : t[k] \in WhiteSpace}
    IN  IF t = <<>> THEN <<>>
        ELSE IF stops = {} THEN <<t>>
        ELSE LET k == CHOOSE h \in stops : \A j \in stops : h <= j
             IN  <<SubSeq(t, 1, k - 1)>> \o Fields(SubSeq(t, k, Len(t)))

\* strings.Join(parts, " ").
RECURSIVE Join(_)
Join(parts) ==
    IF parts = <<>> THEN <<>>
    ELSE IF Len(parts) = 1 THEN parts[1]
    ELSE parts[1] \o <<" ">> \o Join(Tail(parts))

\* The concatenation of a sequence of sequences.
RECURSIVE Flatten(_)
Flatten(ss) == IF ss = <<>> THEN <<>> ELSE ss[1] \o Flatten(Tail(ss))

Last(s) == s[Len(s)]

---------------------------------------------------------------------------
(* Severity, Rule, Result and the rule constructors.                       *)

SeverityFatal == "fatal"
SeverityError == "error"
SeverityWarning == "warning"
\* The zero value of the Severity field of a Rule literal that does not set it.
SeverityUnset == ""

Rule(startLine, endLine, code, description, url, severity) ==
    [StartLine |-> startLine, EndLine |-> endLine, Code |-> code,
     Description |-> description, Url |-> url, Severity |-> severity]

NewErrorRule(node, code, description, url) ==
    Rule(node.StartLine, node.EndLine, code, description, url, SeverityError)
NewWarningRule(node, code, description, url) ==
    Rule(node.StartLine, node.EndLine, code, description, url, SeverityWarning)
NewFatalRule(node, code, description, url) ==
    Rule(node.StartLine, node.EndLine, code, description, url, SeverityFatal)

invalidInstructionCode == "InvalidInstruction"
\* invalidInstructionRule with a code of its own instead of the shared one.
invalidInstructionRuleOwnCode(node, description) ==
    NewErrorRule(node, "MissingArguments", description, <<>>)
invalidInstructionRule(node, description) ==
    NewErrorRule(node, invalidInstructionCode, description, <<>>)

---------------------------------------------------------------------------
(* calculateScore.                                                         *)

ErrorPenalty == 15
WarningPenalty == 5
FullScore == 100

\* The loop of calculateScore from rule k on, with the counts so far; the
\* result is the returned score.
RECURSIVE ScoreLoop(_, _, _, _)
ScoreLoop(rules, k, errorCount, warningCount) ==
    IF k > Len(rules)
    THEN LET score == FullScore - (errorCount * ErrorPenalty + warningCount * WarningPenalty)
         IN  IF score < 0 THEN 0 ELSE score
    ELSE IF rules[k].Severity = SeverityFatal THEN 0
    ELSE IF rules[k].Severity = SeverityError
         THEN ScoreLoop(rules, k + 1, errorCount + 1, warningCount)
    ELSE IF rules[k].Severity = SeverityWarning
         THEN ScoreLoop(rules, k + 1, errorCount, warningCount + 1)
    ELSE ScoreLoop(rules, k + 1, errorCount, warningCount)

\* calculateScore without the clamp at 0.
calculateScoreUnclamped(rules) ==
    IF \E k \in 1..Len(rules) : rules[k].Severity = SeverityFatal THEN 0
    ELSE FullScore
         - ErrorPenalty * Cardinality({k \in 1..Len(rules) : rules[k].Severity = SeverityError})
         - WarningPenalty * Cardinality({k \in 1..Len(rules) : rules[k].Severity = SeverityWarning})

\* calculateScore that looks for a fatal rule only at the head of the list.
calculateScoreFatalFirstOnly(rules) ==
    IF rules # <<>> /\ rules[1].Severity = SeverityFatal THEN 0
    ELSE ScoreLoop(SelectSeq(rules, LAMBDA r : r.Severity # SeverityFatal), 1, 0, 0)

calculateScore(rules) == ScoreLoop(rules, 1, 0, 0)

Result(rules, score) == [Rules |-> rules, Score |-> score, Err |-> FALSE]

---------------------------------------------------------------------------
(* calculateScore on its own: the rule list is built one rule at a time    *)
(* with any severity a Rule value can carry, then scored.                  *)

Severities == {SeverityFatal, SeverityError, SeverityWarning, SeverityUnset}

InitScore ==
    /\ dockerfile = <<>>
    /\ warnings = <<>>
    /\ pc = "build"
    /\ idx = 0
    /\ parseRules = <<>>
    /\ results = <<>>
    /\ Idle

AppendRule ==
    /\ pc = "build"
    /\ Len(parseRules) < MaxRules
    /\ \E sev \in Severities :
          parseRules' = Append(parseRules,
                               Rule(1, 1, "Rule", <<>>, <<>>, sev))
    /\ UNCHANGED <<dockerfile, warnings, pc, idx, results, action, conc>>

BuildDone ==
    /\ pc = "build"
    /\ pc' = "score"
    /\ UNCHANGED <<dockerfile, warnings, idx, parseRules, results, action, conc>>

\* The last two statements of ParseDockerfile.
ScoreStep ==
    /\ pc = "score"
    /\ results' = Append(results, Result(parseRules, calculateScore(parseRules)))
    /\ pc' = "done"
    /\ UNCHANGED <<dockerfile, warnings, idx, parseRules, action, conc>>

NextScore == AppendRule \/ BuildDone \/ ScoreStep

SpecScore == InitScore /\ [][NextScore]_vars

---------------------------------------------------------------------------
(* The input and the output of parser.Parse.                                *)
(*                                                                         *)
(* A Dockerfile is a sequence of instructions taken from Catalog.  Each    *)
(* entry holds the physical lines of one instruction (Raw) and the node    *)
(* parser.Parse builds for them: Value is the keyword as written, Original *)
(* the logical line, Flags the leading --flags, Next the argument nodes    *)
(* (HasNext is FALSE when node.Next is nil), Attributes the node's         *)
(* attribute keys.  Err marks lines parser.Parse rejects.                  *)

Catalog == <<
    \* 1:  FROM alpine
    [Raw |-> <<<<"F","R","O","M"," ","a","l","p","i","n","e">>>>,
     Err |-> FALSE,
     Value |-> <<"F","R","O","M">>,
     Original |-> <<"F","R","O","M"," ","a","l","p","i","n","e">>,
     Flags |-> <<>>,
     HasNext |-> TRUE,
     Next |-> <<[Value |-> <<"a","l","p","i","n","e">>, Flags |-> <<>>]>>,
     Attributes |-> {}],
    \* 2:  ARG TOKEN
    [Raw |-> <<<<"A","R","G"," ","T","O","K","E","N">>>>,
     Err |-> FALSE,
     Value |-> <<"A","R","G">>,
     Original |-> <<"A","R","G"," ","T","O","K","E","N">>,
     Flags |-> <<>>,
     HasNext |-> TRUE,
     Next |-> <<[Value |-> <<"T","O","K","E","N">>, Flags |-> <<>>]>>,
     Attributes |-> {}],
    \* 3:  FROM --platform=$P node:${TOKEN}
    [Raw |-> <<<<"F","R","O","M"," ","-","-","p","l","a","t","f","o","r","m","=","$","P"," ","n","o","d","e",":","$","{","T","O","K","E","N","}">>>>,
     Err |-> FALSE,
     Value |-> <<"F","R","O","M">>,
     Original |-> <<"F","R","O","M"," ","-","-","p","l","a","t","f","o","r","m","=","$","P"," ","n","o","d","e",":","$","{","T","O","K","E","N","}">>,
     Flags |-> <<<<"-","-","p","l","a","t","f","o","r","m","=","$","P">>>>,
     HasNext |-> TRUE,
     Next |-> <<[Value |-> <<"n","o","d","e",":","$","{","T","O","K","E","N","}">>, Flags |-> <<>>]>>,
     Attributes |-> {}],
    \* 4:  ARG X=$Y
    [Raw |-> <<<<"A","R","G"," ","X","=","$","Y">>>>,
     Err |-> FALSE,
     Value |-> <<"A","R","G">>,
     Original |-> <<"A","R","G"," ","X","=","$","Y">>,
     Flags |-> <<>>,
     HasNext |-> TRUE,
     Next |-> <<[Value |-> <<"X","=","$","Y">>, Flags |-> <<>>]>>,
     Attributes |-> {}],
    \* 5:  ENV A=$B
    [Raw |-> <<<<"E","N","V"," ","A","=","$","B">>>>,
     Err |-> FALSE,
     Value |-> <<"E","N","V">>,
     Original |-> <<"E","N","V"," ","A","=","$","B">>,
     Flags |-> <<>>,
     HasNext |-> TRUE,
     Next |-> <<[Value |-> <<"A">>, Flags |-> <<>>], [Value |-> <<"$","B">>, Flags |-> <<>>], [Value |-> <<"=">>, Flags |-> <<>>]>>,
     Attributes |-> {}],
    \* 6:  CMD echo hi
    [Raw |-> <<<<"C","M","D"," ","e","c","h","o"," ","h","i">>>>,
     Err |-> FALSE,
     Value |-> <<"C","M","D">>,
     Original |-> <<"C","M","D"," ","e","c","h","o"," ","h","i">>,
     Flags |-> <<>>,
     HasNext |-> TRUE,
     Next |-> <<[Value |-> <<"e","c","h","o"," ","h","i">>, Flags |-> <<>>]>>,
     Attributes |-> {}],
    \* 7:  CMD ["$Z"]
    [Raw |-> <<<<"C","M","D"," ","[","\"","$","Z","\"","]">>>>,
     Err |-> FALSE,
     Value |-> <<"C","M","D">>,
     Original |-> <<"C","M","D"," ","[","\"","$","Z","\"","]">>,
     Flags |-> <<>>,
     HasNext |-> TRUE,
     Next |-> <<[Value |-> <<"$","Z">>, Flags |-> <<>>]>>,
     Attributes |-> {"json"}],
    \* 8:  COPY --chown=$U $SRC dst
    [Raw |-> <<<<"C","O","P","Y"," ","-","-","c","h","o","w","n","=","$","U"," ","$","S","R","C"," ","d","s","t">>>>,
     Err |-> FALSE,
     Value |-> <<"C","O","P","Y">>,
     Original |-> <<"C","O","P","Y"," ","-","-","c","h","o","w","n","=","$","U"," ","$","S","R","C"," ","d","s","t">>,
     Flags |-> <<<<"-","-","c","h","o","w","n","=","$","U">>>>,
     HasNext |-> TRUE,
     Next |-> <<[Value |-> <<"$","S","R","C">>, Flags |-> <<>>], [Value |-> <<"d","s","t">>, Flags |-> <<>>]>>,
     Attributes |-> {}],
    \* 9:  foo bar
    [Raw |-> <<<<"f","o","o"," ","b","a","r">>>>,
     Err |-> FALSE,
     Value |-> <<"f","o","o">>,
     Original |-> <<"f","o","o"," ","b","a","r">>,
     Flags |-> <<>>,
     HasNext |-> TRUE,
     Next |-> <<[Value |-> <<>>, Flags |-> <<>>]>>,
     Attributes |-> {}],
    \* 10:  Run a \ / (empty line) /   b
    [Raw |-> <<<<"R","u","n"," ","a"," ","\\">>, <<>>, <<" "," ","b">>>>,
     Err |-> FALSE,
     Value |-> <<"R","u","n">>,
     Original |-> <<"R","u","n"," ","a"," "," "," ","b">>,
     Flags |-> <<>>,
     HasNext |-> TRUE,
     Next |-> <<[Value |-> <<"a"," "," "," ","b">>, Flags |-> <<>>]>>,
     Attributes |-> {}],
    \* 11:  FROM --platform=linux/amd64 alpine AS a
    [Raw |-> <<<<"F","R","O","M"," ","-","-","p","l","a","t","f","o","r","m","=","l","i","n","u","x","/","a","m","d","6","4"," ","a","l","p","i","n","e"," ","A","S"," ","a">>>>,
     Err |-> FALSE,
     Value |-> <<"F","R","O","M">>,
     Original |-> <<"F","R","O","M"," ","-","-","p","l","a","t","f","o","r","m","=","l","i","n","u","x","/","a","m","d","6","4"," ","a","l","p","i","n","e"," ","A","S"," ","a">>,
     Flags |-> <<<<"-","-","p","l","a","t","f","o","r","m","=","l","i","n","u","x","/","a","m","d","6","4">>>>,
     HasNext |-> TRUE,
     Next |-> <<[Value |-> <<"a","l","p","i","n","e">>, Flags |-> <<>>], [Value |-> <<"A","S">>, Flags |-> <<>>], [Value |-> <<"a">>, Flags |-> <<>>]>>,
     Attributes |-> {}],
    \* 12:  WORKDIR app
    [Raw |-> <<<<"W","O","R","K","D","I","R"," ","a","p","p">>>>,
     Err |-> FALSE,
     Value |-> <<"W","O","R","K","D","I","R">>,
     Original |-> <<"W","O","R","K","D","I","R"," ","a","p","p">>,
     Flags |-> <<>>,
     HasNext |-> TRUE,
     Next |-> <<[Value |-> <<"a","p","p">>, Flags |-> <<>>]>>,
     Attributes |-> {}],
    \* 13:  CMD ["",""]
    [Raw |-> <<<<"C","M","D"," ","[","\"","\"",",","\"","\"","]">>>>,
     Err |-> FALSE,
     Value |-> <<"C","M","D">>,
     Original |-> <<"C","M","D"," ","[","\"","\"",",","\"","\"","]">>,
     Flags |-> <<>>,
     HasNext |-> TRUE,
     Next |-> <<[Value |-> <<>>, Flags |-> <<>>], [Value |-> <<>>, Flags |-> <<>>]>>,
     Attributes |-> {"json"}],
    \* 14:  FROM alpine AS a
    [Raw |-> <<<<"F","R","O","M"," ","a","l","p","i","n","e"," ","A","S"," ","a">>>>,
     Err |-> FALSE,
     Value |-> <<"F","R","O","M">>,
     Original |-> <<"F","R","O","M"," ","a","l","p","i","n","e"," ","A","S"," ","a">>,
     Flags |-> <<>>,
     HasNext |-> TRUE,
     Next |-> <<[Value |-> <<"a","l","p","i","n","e">>, Flags |-> <<>>], [Value |-> <<"A","S">>, Flags |-> <<>>], [Value |-> <<"a">>, Flags |-> <<>>]>>,
     Attributes |-> {}],
    \* 15:  FROM alpine AS b
    [Raw |-> <<<<"F","R","O","M"," ","a","l","p","i","n","e"," ","A","S"," ","b">>>>,
     Err |-> FALSE,
     Value |-> <<"F","R","O","M">>,
     Original |-> <<"F","R","O","M"," ","a","l","p","i","n","e"," ","A","S"," ","b">>,
     Flags |-> <<>>,
     HasNext |-> TRUE,
     Next |-> <<[Value |-> <<"a","l","p","i","n","e">>, Flags |-> <<>>], [Value |-> <<"A","S">>, Flags |-> <<>>], [Value |-> <<"b">>, Flags |-> <<>>]>>,
     Attributes |-> {}],
    \* 16:  FROM alpine AS A
    [Raw |-> <<<<"F","R","O","M"," ","a","l","p","i","n","e"," ","A","S"," ","A">>>>,
     Err |-> FALSE,
     Value |-> <<"F","R","O","M">>,
     Original |-> <<"F","R","O","M"," ","a","l","p","i","n","e"," ","A","S"," ","A">>,
     Flags |-> <<>>,
     HasNext |-> TRUE,
     Next |-> <<[Value |-> <<"a","l","p","i","n","e">>, Flags |-> <<>>], [Value |-> <<"A","S">>, Flags |-> <<>>], [Value |-> <<"A">>, Flags |-> <<>>]>>,
     Attributes |-> {}],
    \* 17:  FROM a
    [Raw |-> <<<<"F","R","O","M"," ","a">>>>,
     Err |-> FALSE,
     Value |-> <<"F","R","O","M">>,
     Original |-> <<"F","R","O","M"," ","a">>,
     Flags |-> <<>>,
     HasNext |-> TRUE,
     Next |-> <<[Value |-> <<"a">>, Flags |-> <<>>]>>,
     Attributes |-> {}],
    \* 18:  FROM
    [Raw |-> <<<<"F","R","O","M">>>>,
     Err |-> FALSE,
     Value |-> <<"F","R","O","M">>,
     Original |-> <<"F","R","O","M">>,
     Flags |-> <<>>,
     HasNext |-> FALSE,
     Next |-> <<>>,
     Attributes |-> {}],
    \* 19:  from alpine
    [Raw |-> <<<<"f","r","o","m"," ","a","l","p","i","n","e">>>>,
     Err |-> FALSE,
     Value |-> <<"f","r","o","m">>,
     Original |-> <<"f","r","o","m"," ","a","l","p","i","n","e">>,
     Flags |-> <<>>,
     HasNext |-> TRUE,
     Next |-> <<[Value |-> <<"a","l","p","i","n","e">>, Flags |-> <<>>]>>,
     Attributes |-> {}],
    \* 20:  FROM alp!ne
    [Raw |-> <<<<"F","R","O","M"," ","a","l","p","!","n","e">>>>,
     Err |-> FALSE,
     Value |-> <<"F","R","O","M">>,
     Original |-> <<"F","R","O","M"," ","a","l","p","!","n","e">>,
     Flags |-> <<>>,
     HasNext |-> TRUE,
     Next |-> <<[Value |-> <<"a","l","p","!","n","e">>, Flags |-> <<>>]>>,
     Attributes |-> {}],
    \* 21:  FROM $
    [Raw |-> <<<<"F","R","O","M"," ","$">>>>,
     Err |-> FALSE,
     Value |-> <<"F","R","O","M">>,
     Original |-> <<"F","R","O","M"," ","$">>,
     Flags |-> <<>>,
     HasNext |-> TRUE,
     Next |-> <<[Value |-> <<"$">>, Flags |-> <<>>]>>,
     Attributes |-> {}],
    \* 22:  FROM alpine@sha256:abc
    [Raw |-> <<<<"F","R","O","M"," ","a","l","p","i","n","e","@","s","h","a","2","5","6",":","a","b","c">>>>,
     Err |-> FALSE,
     Value |-> <<"F","R","O","M">>,
     Original |-> <<"F","R","O","M"," ","a","l","p","i","n","e","@","s","h","a","2","5","6",":","a","b","c">>,
     Flags |-> <<>>,
     HasNext |-> TRUE,
     Next |-> <<[Value |-> <<"a","l","p","i","n","e","@","s","h","a","2","5","6",":","a","b","c">>, Flags |-> <<>>]>>,
     Attributes |-> {}],
    \* 23:  FROM alpine@md5
    [Raw |-> <<<<"F","R","O","M"," ","a","l","p","i","n","e","@","m","d","5">>>>,
     Err |-> FALSE,
     Value |-> <<"F","R","O","M">>,
     Original |-> <<"F","R","O","M"," ","a","l","p","i","n","e","@","m","d","5">>,
     Flags |-> <<>>,
     HasNext |-> TRUE,
     Next |-> <<[Value |-> <<"a","l","p","i","n","e","@","m","d","5">>, Flags |-> <<>>]>>,
     Attributes |-> {}],
    \* 24:  FROM a@b@c
    [Raw |-> <<<<"F","R","O","M"," ","a","@","b","@","c">>>>,
     Err |-> FALSE,
     Value |-> <<"F","R","O","M">>,
     Original |-> <<"F","R","O","M"," ","a","@","b","@","c">>,
     Flags |-> <<>>,
     HasNext |-> TRUE,
     Next |-> <<[Value |-> <<"a","@","b","@","c">>, Flags |-> <<>>]>>,
     Attributes |-> {}],
    \* 25:  FROM --platform=bad alpine
    [Raw |-> <<<<"F","R","O","M"," ","-","-","p","l","a","t","f","o","r","m","=","b","a","d"," ","a","l","p","i","n","e">>>>,
     Err |-> FALSE,
     Value |-> <<"F","R","O","M">>,
     Original |-> <<"F","R","O","M"," ","-","-","p","l","a","t","f","o","r","m","=","b","a","d"," ","a","l","p","i","n","e">>,
     Flags |-> <<<<"-","-","p","l","a","t","f","o","r","m","=","b","a","d">>>>,
     HasNext |-> TRUE,
     Next |-> <<[Value |-> <<"a","l","p","i","n","e">>, Flags |-> <<>>]>>,
     Attributes |-> {}],
    \* 26:  FROM --platform=linux/mips alpine
    [Raw |-> <<<<"F","R","O","M"," ","-","-","p","l","a","t","f","o","r","m","=","l","i","n","u","x","/","m","i","p","s"," ","a","l","p","i","n","e">>>>,
     Err |-> FALSE,
     Value |-> <<"F","R","O","M">>,
     Original |-> <<"F","R","O","M"," ","-","-","p","l","a","t","f","o","r","m","=","l","i","n","u","x","/","m","i","p","s"," ","a","l","p","i","n","e">>,
     Flags |-> <<<<"-","-","p","l","a","t","f","o","r","m","=","l","i","n","u","x","/","m","i","p","s">>>>,
     HasNext |-> TRUE,
     Next |-> <<[Value |-> <<"a","l","p","i","n","e">>, Flags |-> <<>>]>>,
     Attributes |-> {}],
    \* 27:  FROM --platform=$TARGETPLATFORM alpine
    [Raw |-> <<<<"F","R","O","M"," ","-","-","p","l","a","t","f","o","r","m","=","$","T","A","R","G","E","T","P","L","A","T","F","O","R","M"," ","a","l","p","i","n","e">>>>,
     Err |-> FALSE,
     Value |-> <<"F","R","O","M">>,
     Original |-> <<"F","R","O","M"," ","-","-","p","l","a","t","f","o","r","m","=","$","T","A","R","G","E","T","P","L","A","T","F","O","R","M"," ","a","l","p","i","n","e">>,
     Flags |-> <<<<"-","-","p","l","a","t","f","o","r","m","=","$","T","A","R","G","E","T","P","L","A","T","F","O","R","M">>>>,
     HasNext |-> TRUE,
     Next |-> <<[Value |-> <<"a","l","p","i","n","e">>, Flags |-> <<>>]>>,
     Attributes |-> {}],
    \* 28:  FROM alpine AS 1x
    [Raw |-> <<<<"F","R","O","M"," ","a","l","p","i","n","e"," ","A","S"," ","1","x">>>>,
     Err |-> FALSE,
     Value |-> <<"F","R","O","M">>,
     Original |-> <<"F","R","O","M"," ","a","l","p","i","n","e"," ","A","S"," ","1","x">>,
     Flags |-> <<>>,
     HasNext |-> TRUE,
     Next |-> <<[Value |-> <<"a","l","p","i","n","e">>, Flags |-> <<>>], [Value |-> <<"A","S">>, Flags |-> <<>>], [Value |-> <<"1","x">>, Flags |-> <<>>]>>,
     Attributes |-> {}],
    \* 29:  FROM alpine AS scratch
    [Raw |-> <<<<"F","R","O","M"," ","a","l","p","i","n","e"," ","A","S"," ","s","c","r","a","t","c","h">>>>,
     Err |-> FALSE,
     Value |-> <<"F","R","O","M">>,
     Original |-> <<"F","R","O","M"," ","a","l","p","i","n","e"," ","A","S"," ","s","c","r","a","t","c","h">>,
     Flags |-> <<>>,
     HasNext |-> TRUE,
     Next |-> <<[Value |-> <<"a","l","p","i","n","e">>, Flags |-> <<>>], [Value |-> <<"A","S">>, Flags |-> <<>>], [Value |-> <<"s","c","r","a","t","c","h">>, Flags |-> <<>>]>>,
     Attributes |-> {}],
    \* 30:  FROM alpine as b
    [Raw |-> <<<<"F","R","O","M"," ","a","l","p","i","n","e"," ","a","s"," ","b">>>>,
     Err |-> FALSE,
     Value |-> <<"F","R","O","M">>,
     Original |-> <<"F","R","O","M"," ","a","l","p","i","n","e"," ","a","s"," ","b">>,
     Flags |-> <<>>,
     HasNext |-> TRUE,
     Next |-> <<[Value |-> <<"a","l","p","i","n","e">>, Flags |-> <<>>], [Value |-> <<"a","s">>, Flags |-> <<>>], [Value |-> <<"b">>, Flags |-> <<>>]>>,
     Attributes |-> {}],
    \* 31:  from alpine as b
    [Raw |-> <<<<"f","r","o","m"," ","a","l","p","i","n","e"," ","a","s"," ","b">>>>,
     Err |-> FALSE,
     Value |-> <<"f","r","o","m">>,
     Original |-> <<"f","r","o","m"," ","a","l","p","i","n","e"," ","a","s"," ","b">>,
     Flags |-> <<>>,
     HasNext |-> TRUE,
     Next |-> <<[Value |-> <<"a","l","p","i","n","e">>, Flags |-> <<>>], [Value |-> <<"a","s">>, Flags |-> <<>>], [Value |-> <<"b">>, Flags |-> <<>>]>>,
     Attributes |-> {}],
    \* 32:  FROM alpine:${TAG:-3} AS build_amd64
    [Raw |-> <<<<"F","R","O","M"," ","a","l","p","i","n","e",":","$","{","T","A","G",":","-","3","}"," ","A","S"," ","b","u","i","l","d","_","a","m","d","6","4">>>>,
     Err |-> FALSE,
     Value |-> <<"F","R","O","M">>,
     Original |-> <<"F","R","O","M"," ","a","l","p","i","n","e",":","$","{","T","A","G",":","-","3","}"," ","A","S"," ","b","u","i","l","d","_","a","m","d","6","4">>,
     Flags |-> <<>>,
     HasNext |-> TRUE,
     Next |-> <<[Value |-> <<"a","l","p","i","n","e",":","$","{","T","A","G",":","-","3","}">>, Flags |-> <<>>], [Value |-> <<"A","S">>, Flags |-> <<>>], [Value |-> <<"b","u","i","l","d","_","a","m","d","6","4">>, Flags |-> <<>>]>>,
     Attributes |-> {}],
    \* 33:  WORKDIR
    [Raw |-> <<<<"W","O","R","K","D","I","R">>>>,
     Err |-> FALSE,
     Value |-> <<"W","O","R","K","D","I","R">>,
     Original |-> <<"W","O","R","K","D","I","R">>,
     Flags |-> <<>>,
     HasNext |-> FALSE,
     Next |-> <<>>,
     Attributes |-> {}],
    \* 34:  WORKDIR /app
    [Raw |-> <<<<"W","O","R","K","D","I","R"," ","/","a","p","p">>>>,
     Err |-> FALSE,
     Value |-> <<"W","O","R","K","D","I","R">>,
     Original |-> <<"W","O","R","K","D","I","R"," ","/","a","p","p">>,
     Flags |-> <<>>,
     HasNext |-> TRUE,
     Next |-> <<[Value |-> <<"/","a","p","p">>, Flags |-> <<>>]>>,
     Attributes |-> {}],
    \* 35:  WORKDIR C:\app
    [Raw |-> <<<<"W","O","R","K","D","I","R"," ","C",":","\\","a","p","p">>>>,
     Err |-> FALSE,
     Value |-> <<"W","O","R","K","D","I","R">>,
     Original |-> <<"W","O","R","K","D","I","R"," ","C",":","\\","a","p","p">>,
     Flags |-> <<>>,
     HasNext |-> TRUE,
     Next |-> <<[Value |-> <<"C",":","\\","a","p","p">>, Flags |-> <<>>]>>,
     Attributes |-> {}],
    \* 36:  WORKDIR $HOME
    [Raw |-> <<<<"W","O","R","K","D","I","R"," ","$","H","O","M","E">>>>,
     Err |-> FALSE,
     Value |-> <<"W","O","R","K","D","I","R">>,
     Original |-> <<"W","O","R","K","D","I","R"," ","$","H","O","M","E">>,
     Flags |-> <<>>,
     HasNext |-> TRUE,
     Next |-> <<[Value |-> <<"$","H","O","M","E">>, Flags |-> <<>>]>>,
     Attributes |-> {}],
    \* 37:  RUN
    [Raw |-> <<<<"R","U","N">>>>,
     Err |-> FALSE,
     Value |-> <<"R","U","N">>,
     Original |-> <<"R","U","N">>,
     Flags |-> <<>>,
     HasNext |-> FALSE,
     Next |-> <<>>,
     Attributes |-> {}],
    \* 38:  RUN echo hi
    [Raw |-> <<<<"R","U","N"," ","e","c","h","o"," ","h","i">>>>,
     Err |-> FALSE,
     Value |-> <<"R","U","N">>,
     Original |-> <<"R","U","N"," ","e","c","h","o"," ","h","i">>,
     Flags |-> <<>>,
     HasNext |-> TRUE,
     Next |-> <<[Value |-> <<"e","c","h","o"," ","h","i">>, Flags |-> <<>>]>>,
     Attributes |-> {}],
    \* 39:  RUN ["echo","hi"]
    [Raw |-> <<<<"R","U","N"," ","[","\"","e","c","h","o","\"",",","\"","h","i","\"","]">>>>,
     Err |-> FALSE,
     Value |-> <<"R","U","N">>,
     Original |-> <<"R","U","N"," ","[","\"","e","c","h","o","\"",",","\"","h","i","\"","]">>,
     Flags |-> <<>>,
     HasNext |-> TRUE,
     Next |-> <<[Value |-> <<"e","c","h","o">>, Flags |-> <<>>], [Value |-> <<"h","i">>, Flags |-> <<>>]>>,
     Attributes |-> {"json"}],
    \* 40:  RUN ['echo']
    [Raw |-> <<<<"R","U","N"," ","[","'","e","c","h","o","'","]">>>>,
     Err |-> FALSE,
     Value |-> <<"R","U","N">>,
     Original |-> <<"R","U","N"," ","[","'","e","c","h","o","'","]">>,
     Flags |-> <<>>,
     HasNext |-> TRUE,
     Next |-> <<[Value |-> <<"[","'","e","c","h","o","'","]">>, Flags |-> <<>>]>>,
     Attributes |-> {}],
    \* 41:  RUN [""]
    [Raw |-> <<<<"R","U","N"," ","[","\"","\"","]">>>>,
     Err |-> FALSE,
     Value |-> <<"R","U","N">>,
     Original |-> <<"R","U","N"," ","[","\"","\"","]">>,
     Flags |-> <<>>,
     HasNext |-> TRUE,
     Next |-> <<[Value |-> <<>>, Flags |-> <<>>]>>,
     Attributes |-> {"json"}],
    \* 42:  RUN [ -f x ]
    [Raw |-> <<<<"R","U","N"," ","["," ","-","f"," ","x"," ","]">>>>,
     Err |-> FALSE,
     Value |-> <<"R","U","N">>,
     Original |-> <<"R","U","N"," ","["," ","-","f"," ","x"," ","]">>,
     Flags |-> <<>>,
     HasNext |-> TRUE,
     Next |-> <<[Value |-> <<"["," ","-","f"," ","x"," ","]">>, Flags |-> <<>>]>>,
     Attributes |-> {}],
    \* 43:  RUN --mount=type=cache,target=/c make
    [Raw |-> <<<<"R","U","N"," ","-","-","m","o","u","n","t","=","t","y","p","e","=","c","a","c","h","e",",","t","a","r","g","e","t","=","/","c"," ","m","a","k","e">>>>,
     Err |-> FALSE,
     Value |-> <<"R","U","N">>,
     Original |-> <<"R","U","N"," ","-","-","m","o","u","n","t","=","t","y","p","e","=","c","a","c","h","e",",","t","a","r","g","e","t","=","/","c"," ","m","a","k","e">>,
     Flags |-> <<<<"-","-","m","o","u","n","t","=","t","y","p","e","=","c","a","c","h","e",",","t","a","r","g","e","t","=","/","c">>>>,
     HasNext |-> TRUE,
     Next |-> <<[Value |-> <<"m","a","k","e">>, Flags |-> <<>>]>>,
     Attributes |-> {}],
    \* 44:  RUN --mount=type=foo make
    [Raw |-> <<<<"R","U","N"," ","-","-","m","o","u","n","t","=","t","y","p","e","=","f","o","o"," ","m","a","k","e">>>>,
     Err |-> FALSE,
     Value |-> <<"R","U","N">>,
     Original |-> <<"R","U","N"," ","-","-","m","o","u","n","t","=","t","y","p","e","=","f","o","o"," ","m","a","k","e">>,
     Flags |-> <<<<"-","-","m","o","u","n","t","=","t","y","p","e","=","f","o","o">>>>,
     HasNext |-> TRUE,
     Next |-> <<[Value |-> <<"m","a","k","e">>, Flags |-> <<>>]>>,
     Attributes |-> {}],
    \* 45:  RUN --mount=target=/c make
    [Raw |-> <<<<"R","U","N"," ","-","-","m","o","u","n","t","=","t","a","r","g","e","t","=","/","c"," ","m","a","k","e">>>>,
     Err |-> FALSE,
     Value |-> <<"R","U","N">>,
     Original |-> <<"R","U","N"," ","-","-","m","o","u","n","t","=","t","a","r","g","e","t","=","/","c"," ","m","a","k","e">>,
     Flags |-> <<<<"-","-","m","o","u","n","t","=","t","a","r","g","e","t","=","/","c">>>>,
     HasNext |-> TRUE,
     Next |-> <<[Value |-> <<"m","a","k","e">>, Flags |-> <<>>]>>,
     Attributes |-> {}],
    \* 46:  RUN --network=none make
    [Raw |-> <<<<"R","U","N"," ","-","-","n","e","t","w","o","r","k","=","n","o","n","e"," ","m","a","k","e">>>>,
     Err |-> FALSE,
     Value |-> <<"R","U","N">>,
     Original |-> <<"R","U","N"," ","-","-","n","e","t","w","o","r","k","=","n","o","n","e"," ","m","a","k","e">>,
     Flags |-> <<<<"-","-","n","e","t","w","o","r","k","=","n","o","n","e">>>>,
     HasNext |-> TRUE,
     Next |-> <<[Value |-> <<"m","a","k","e">>, Flags |-> <<>>]>>,
     Attributes |-> {}],
    \* 47:  RUN --network=bad make
    [Raw |-> <<<<"R","U","N"," ","-","-","n","e","t","w","o","r","k","=","b","a","d"," ","m","a","k","e">>>>,
     Err |-> FALSE,
     Value |-> <<"R","U","N">>,
     Original |-> <<"R","U","N"," ","-","-","n","e","t","w","o","r","k","=","b","a","d"," ","m","a","k","e">>,
     Flags |-> <<<<"-","-","n","e","t","w","o","r","k","=","b","a","d">>>>,
     HasNext |-> TRUE,
     Next |-> <<[Value |-> <<"m","a","k","e">>, Flags |-> <<>>]>>,
     Attributes |-> {}],
    \* 48:  RUN --security=insecure make
    [Raw |-> <<<<"R","U","N"," ","-","-","s","e","c","u","r","i","t","y","=","i","n","s","e","c","u","r","e"," ","m","a","k","e">>>>,
     Err |-> FALSE,
     Value |-> <<"R","U","N">>,
     Original |-> <<"R","U","N"," ","-","-","s","e","c","u","r","i","t","y","=","i","n","s","e","c","u","r","e"," ","m","a","k","e">>,
     Flags |-> <<<<"-","-","s","e","c","u","r","i","t","y","=","i","n","s","e","c","u","r","e">>>>,
     HasNext |-> TRUE,
     Next |-> <<[Value |-> <<"m","a","k","e">>, Flags |-> <<>>]>>,
     Attributes |-> {}],
    \* 49:  RUN --security=bad make
    [Raw |-> <<<<"R","U","N"," ","-","-","s","e","c","u","r","i","t","y","=","b","a","d"," ","m","a","k","e">>>>,
     Err |-> FALSE,
     Value |-> <<"R","U","N">>,
     Original |-> <<"R","U","N"," ","-","-","s","e","c","u","r","i","t","y","=","b","a","d"," ","m","a","k","e">>,
     Flags |-> <<<<"-","-","s","e","c","u","r","i","t","y","=","b","a","d">>>>,
     HasNext |-> TRUE,
     Next |-> <<[Value |-> <<"m","a","k","e">>, Flags |-> <<>>]>>,
     Attributes |-> {}],
    \* 50:  EXPOSE
    [Raw |-> <<<<"E","X","P","O","S","E">>>>,
     Err |-> FALSE,
     Value |-> <<"E","X","P","O","S","E">>,
     Original |-> <<"E","X","P","O","S","E">>,
     Flags |-> <<>>,
     HasNext |-> FALSE,
     Next |-> <<>>,
     Attributes |-> {}],
    \* 51:  EXPOSE 80
    [Raw |-> <<<<"E","X","P","O","S","E"," ","8","0">>>>,
     Err |-> FALSE,
     Value |-> <<"E","X","P","O","S","E">>,
     Original |-> <<"E","X","P","O","S","E"," ","8","0">>,
     Flags |-> <<>>,
     HasNext |-> TRUE,
     Next |-> <<[Value |-> <<"8","0">>, Flags |-> <<>>]>>,
     Attributes |-> {}],
    \* 52:  EXPOSE 80/tcp 53/udp
    [Raw |-> <<<<"E","X","P","O","S","E"," ","8","0","/","t","c","p"," ","5","3","/","u","d","p">>>>,
     Err |-> FALSE,
     Value |-> <<"E","X","P","O","S","E">>,
     Original |-> <<"E","X","P","O","S","E"," ","8","0","/","t","c","p"," ","5","3","/","u","d","p">>,
     Flags |-> <<>>,
     HasNext |-> TRUE,
     Next |-> <<[Value |-> <<"8","0","/","t","c","p">>, Flags |-> <<>>], [Value |-> <<"5","3","/","u","d","p">>, Flags |-> <<>>]>>,
     Attributes |-> {}],
    \* 53:  EXPOSE 80:80
    [Raw |-> <<<<"E","X","P","O","S","E"," ","8","0",":","8","0">>>>,
     Err |-> FALSE,
     Value |-> <<"E","X","P","O","S","E">>,
     Original |-> <<"E","X","P","O","S","E"," ","8","0",":","8","0">>,
     Flags |-> <<>>,
     HasNext |-> TRUE,
     Next |-> <<[Value |-> <<"8","0",":","8","0">>, Flags |-> <<>>]>>,
     Attributes |-> {}],
    \* 54:  EXPOSE 65535
    [Raw |-> <<<<"E","X","P","O","S","E"," ","6","5","5","3","5">>>>,
     Err |-> FALSE,
     Value |-> <<"E","X","P","O","S","E">>,
     Original |-> <<"E","X","P","O","S","E"," ","6","5","5","3","5">>,
     Flags |-> <<>>,
     HasNext |-> TRUE,
     Next |-> <<[Value |-> <<"6","5","5","3","5">>, Flags |-> <<>>]>>,
     Attributes |-> {}],
    \* 55:  EXPOSE 65536
    [Raw |-> <<<<"E","X","P","O","S","E"," ","6","5","5","3","6">>>>,
     Err |-> FALSE,
     Value |-> <<"E","X","P","O","S","E">>,
     Original |-> <<"E","X","P","O","S","E"," ","6","5","5","3","6">>,
     Flags |-> <<>>,
     HasNext |-> TRUE,
     Next |-> <<[Value |-> <<"6","5","5","3","6">>, Flags |-> <<>>]>>,
     Attributes |-> {}],
    \* 56:  EXPOSE -1
    [Raw |-> <<<<"E","X","P","O","S","E"," ","-","1">>>>,
     Err |-> FALSE,
     Value |-> <<"E","X","P","O","S","E">>,
     Original |-> <<"E","X","P","O","S","E"," ","-","1">>,
     Flags |-> <<>>,
     HasNext |-> TRUE,
     Next |-> <<[Value |-> <<"-","1">>, Flags |-> <<>>]>>,
     Attributes |-> {}],
    \* 57:  EXPOSE +80
    [Raw |-> <<<<"E","X","P","O","S","E"," ","+","8","0">>>>,
     Err |-> FALSE,
     Value |-> <<"E","X","P","O","S","E">>,
     Original |-> <<"E","X","P","O","S","E"," ","+","8","0">>,
     Flags |-> <<>>,
     HasNext |-> TRUE,
     Next |-> <<[Value |-> <<"+","8","0">>, Flags |-> <<>>]>>,
     Attributes |-> {}],
    \* 58:  EXPOSE 99999999999999999999
    [Raw |-> <<<<"E","X","P","O","S","E"," ","9","9","9","9","9","9","9","9","9","9","9","9","9","9","9","9","9","9","9","9">>>>,
     Err |-> FALSE,
     Value |-> <<"E","X","P","O","S","E">>,
     Original |-> <<"E","X","P","O","S","E"," ","9","9","9","9","9","9","9","9","9","9","9","9","9","9","9","9","9","9","9","9">>,
     Flags |-> <<>>,
     HasNext |-> TRUE,
     Next |-> <<[Value |-> <<"9","9","9","9","9","9","9","9","9","9","9","9","9","9","9","9","9","9","9","9">>, Flags |-> <<>>]>>,
     Attributes |-> {}],
    \* 59:  EXPOSE 80/sctp
    [Raw |-> <<<<"E","X","P","O","S","E"," ","8","0","/","s","c","t","p">>>>,
     Err |-> FALSE,
     Value |-> <<"E","X","P","O","S","E">>,
     Original |-> <<"E","X","P","O","S","E"," ","8","0","/","s","c","t","p">>,
     Flags |-> <<>>,
     HasNext |-> TRUE,
     Next |-> <<[Value |-> <<"8","0","/","s","c","t","p">>, Flags |-> <<>>]>>,
     Attributes |-> {}],
    \* 60:  EXPOSE 80/TCP
    [Raw |-> <<<<"E","X","P","O","S","E"," ","8","0","/","T","C","P">>>>,
     Err |-> FALSE,
     Value |-> <<"E","X","P","O","S","E">>,
     Original |-> <<"E","X","P","O","S","E"," ","8","0","/","T","C","P">>,
     Flags |-> <<>>,
     HasNext |-> TRUE,
     Next |-> <<[Value |-> <<"8","0","/","T","C","P">>, Flags |-> <<>>]>>,
     Attributes |-> {}],
    \* 61:  EXPOSE $PORT
    [Raw |-> <<<<"E","X","P","O","S","E"," ","$","P","O","R","T">>>>,
     Err |-> FALSE,
     Value |-> <<"E","X","P","O","S","E">>,
     Original |-> <<"E","X","P","O","S","E"," ","$","P","O","R","T">>,
     Flags |-> <<>>,
     HasNext |-> TRUE,
     Next |-> <<[Value |-> <<"$","P","O","R","T">>, Flags |-> <<>>]>>,
     Attributes |-> {}],
    \* 62:  EXPOSE 80 70000
    [Raw |-> <<<<"E","X","P","O","S","E"," ","8","0"," ","7","0","0","0","0">>>>,
     Err |-> FALSE,
     Value |-> <<"E","X","P","O","S","E">>,
     Original |-> <<"E","X","P","O","S","E"," ","8","0"," ","7","0","0","0","0">>,
     Flags |-> <<>>,
     HasNext |-> TRUE,
     Next |-> <<[Value |-> <<"8","0">>, Flags |-> <<>>], [Value |-> <<"7","0","0","0","0">>, Flags |-> <<>>]>>,
     Attributes |-> {}],
    \* 63:  CMD
    [Raw |-> <<<<"C","M","D">>>>,
     Err |-> FALSE,
     Value |-> <<"C","M","D">>,
     Original |-> <<"C","M","D">>,
     Flags |-> <<>>,
     HasNext |-> FALSE,
     Next |-> <<>>,
     Attributes |-> {}],
    \* 64:  CMD []
    [Raw |-> <<<<"C","M","D"," ","[","]">>>>,
     Err |-> FALSE,
     Value |-> <<"C","M","D">>,
     Original |-> <<"C","M","D"," ","[","]">>,
     Flags |-> <<>>,
     HasNext |-> FALSE,
     Next |-> <<>>,
     Attributes |-> {"json"}],
    \* 65:  CMD ["a","b"]
    [Raw |-> <<<<"C","M","D"," ","[","\"","a","\"",",","\"","b","\"","]">>>>,
     Err |-> FALSE,
     Value |-> <<"C","M","D">>,
     Original |-> <<"C","M","D"," ","[","\"","a","\"",",","\"","b","\"","]">>,
     Flags |-> <<>>,
     HasNext |-> TRUE,
     Next |-> <<[Value |-> <<"a">>, Flags |-> <<>>], [Value |-> <<"b">>, Flags |-> <<>>]>>,
     Attributes |-> {"json"}],
    \* 66:  CMD ['a']
    [Raw |-> <<<<"C","M","D"," ","[","'","a","'","]">>>>,
     Err |-> FALSE,
     Value |-> <<"C","M","D">>,
     Original |-> <<"C","M","D"," ","[","'","a","'","]">>,
     Flags |-> <<>>,
     HasNext |-> TRUE,
     Next |-> <<[Value |-> <<"[","'","a","'","]">>, Flags |-> <<>>]>>,
     Attributes |-> {}],
    \* 67:  CMD [""]
    [Raw |-> <<<<"C","M","D"," ","[","\"","\"","]">>>>,
     Err |-> FALSE,
     Value |-> <<"C","M","D">>,
     Original |-> <<"C","M","D"," ","[","\"","\"","]">>,
     Flags |-> <<>>,
     HasNext |-> TRUE,
     Next |-> <<[Value |-> <<>>, Flags |-> <<>>]>>,
     Attributes |-> {"json"}],
    \* 68:  CMD echo bye
    [Raw |-> <<<<"C","M","D"," ","e","c","h","o"," ","b","y","e">>>>,
     Err |-> FALSE,
     Value |-> <<"C","M","D">>,
     Original |-> <<"C","M","D"," ","e","c","h","o"," ","b","y","e">>,
     Flags |-> <<>>,
     HasNext |-> TRUE,
     Next |-> <<[Value |-> <<"e","c","h","o"," ","b","y","e">>, Flags |-> <<>>]>>,
     Attributes |-> {}],
    \* 69:  ENTRYPOINT
    [Raw |-> <<<<"E","N","T","R","Y","P","O","I","N","T">>>>,
     Err |-> FALSE,
     Value |-> <<"E","N","T","R","Y","P","O","I","N","T">>,
     Original |-> <<"E","N","T","R","Y","P","O","I","N","T">>,
     Flags |-> <<>>,
     HasNext |-> FALSE,
     Next |-> <<>>,
     Attributes |-> {}],
    \* 70:  ENTRYPOINT []
    [Raw |-> <<<<"E","N","T","R","Y","P","O","I","N","T"," ","[","]">>>>,
     Err |-> FALSE,
     Value |-> <<"E","N","T","R","Y","P","O","I","N","T">>,
     Original |-> <<"E","N","T","R","Y","P","O","I","N","T"," ","[","]">>,
     Flags |-> <<>>,
     HasNext |-> FALSE,
     Next |-> <<>>,
     Attributes |-> {"json"}],
    \* 71:  ENTRYPOINT ["a"]
    [Raw |-> <<<<"E","N","T","R","Y","P","O","I","N","T"," ","[","\"","a","\"","]">>>>,
     Err |-> FALSE,
     Value |-> <<"E","N","T","R","Y","P","O","I","N","T">>,
     Original |-> <<"E","N","T","R","Y","P","O","I","N","T"," ","[","\"","a","\"","]">>,
     Flags |-> <<>>,
     HasNext |-> TRUE,
     Next |-> <<[Value |-> <<"a">>, Flags |-> <<>>]>>,
     Attributes |-> {"json"}],
    \* 72:  ENTRYPOINT ['a']
    [Raw |-> <<<<"E","N","T","R","Y","P","O","I","N","T"," ","[","'","a","'","]">>>>,
     Err |-> FALSE,
     Value |-> <<"E","N","T","R","Y","P","O","I","N","T">>,
     Original |-> <<"E","N","T","R","Y","P","O","I","N","T"," ","[","'","a","'","]">>,
     Flags |-> <<>>,
     HasNext |-> TRUE,
     Next |-> <<[Value |-> <<"[","'","a","'","]">>, Flags |-> <<>>]>>,
     Attributes |-> {}],
    \* 73:  ENTRYPOINT ["",""]
    [Raw |-> <<<<"E","N","T","R","Y","P","O","I","N","T"," ","[","\"","\"",",","\"","\"","]">>>>,
     Err |-> FALSE,
     Value |-> <<"E","N","T","R","Y","P","O","I","N","T">>,
     Original |-> <<"E","N","T","R","Y","P","O","I","N","T"," ","[","\"","\"",",","\"","\"","]">>,
     Flags |-> <<>>,
     HasNext |-> TRUE,
     Next |-> <<[Value |-> <<>>, Flags |-> <<>>], [Value |-> <<>>, Flags |-> <<>>]>>,
     Attributes |-> {"json"}],
    \* 74:  ENTRYPOINT run.sh
    [Raw |-> <<<<"E","N","T","R","Y","P","O","I","N","T"," ","r","u","n",".","s","h">>>>,
     Err |-> FALSE,
     Value |-> <<"E","N","T","R","Y","P","O","I","N","T">>,
     Original |-> <<"E","N","T","R","Y","P","O","I","N","T"," ","r","u","n",".","s","h">>,
     Flags |-> <<>>,
     HasNext |-> TRUE,
     Next |-> <<[Value |-> <<"r","u","n",".","s","h">>, Flags |-> <<>>]>>,
     Attributes |-> {}],
    \* 75:  SHELL
    [Raw |-> <<<<"S","H","E","L","L">>>>,
     Err |-> FALSE,
     Value |-> <<"S","H","E","L","L">>,
     Original |-> <<"S","H","E","L","L">>,
     Flags |-> <<>>,
     HasNext |-> FALSE,
     Next |-> <<>>,
     Attributes |-> {}],
    \* 76:  SHELL ["sh","-c"]
    [Raw |-> <<<<"S","H","E","L","L"," ","[","\"","s","h","\"",",","\"","-","c","\"","]">>>>,
     Err |-> FALSE,
     Value |-> <<"S","H","E","L","L">>,
     Original |-> <<"S","H","E","L","L"," ","[","\"","s","h","\"",",","\"","-","c","\"","]">>,
     Flags |-> <<>>,
     HasNext |-> TRUE,
     Next |-> <<[Value |-> <<"s","h">>, Flags |-> <<>>], [Value |-> <<"-","c">>, Flags |-> <<>>]>>,
     Attributes |-> {"json"}],
    \* 77:  SHELL sh -c
    [Raw |-> <<<<"S","H","E","L","L"," ","s","h"," ","-","c">>>>,
     Err |-> FALSE,
     Value |-> <<"S","H","E","L","L">>,
     Original |-> <<"S","H","E","L","L"," ","s","h"," ","-","c">>,
     Flags |-> <<>>,
     HasNext |-> TRUE,
     Next |-> <<[Value |-> <<"s","h"," ","-","c">>, Flags |-> <<>>]>>,
     Attributes |-> {}],
    \* 78:  SHELL ['sh']
    [Raw |-> <<<<"S","H","E","L","L"," ","[","'","s","h","'","]">>>>,
     Err |-> FALSE,
     Value |-> <<"S","H","E","L","L">>,
     Original |-> <<"S","H","E","L","L"," ","[","'","s","h","'","]">>,
     Flags |-> <<>>,
     HasNext |-> TRUE,
     Next |-> <<[Value |-> <<"[","'","s","h","'","]">>, Flags |-> <<>>]>>,
     Attributes |-> {}],
    \* 79:  SHELL []
    [Raw |-> <<<<"S","H","E","L","L"," ","[","]">>>>,
     Err |-> FALSE,
     Value |-> <<"S","H","E","L","L">>,
     Original |-> <<"S","H","E","L","L"," ","[","]">>,
     Flags |-> <<>>,
     HasNext |-> FALSE,
     Next |-> <<>>,
     Attributes |-> {"json"}],
    \* 80:  VOLUME
    [Raw |-> <<<<"V","O","L","U","M","E">>>>,
     Err |-> FALSE,
     Value |-> <<"V","O","L","U","M","E">>,
     Original |-> <<"V","O","L","U","M","E">>,
     Flags |-> <<>>,
     HasNext |-> FALSE,
     Next |-> <<>>,
     Attributes |-> {}],
    \* 81:  VOLUME /data /logs
    [Raw |-> <<<<"V","O","L","U","M","E"," ","/","d","a","t","a"," ","/","l","o","g","s">>>>,
     Err |-> FALSE,
     Value |-> <<"V","O","L","U","M","E">>,
     Original |-> <<"V","O","L","U","M","E"," ","/","d","a","t","a"," ","/","l","o","g","s">>,
     Flags |-> <<>>,
     HasNext |-> TRUE,
     Next |-> <<[Value |-> <<"/","d","a","t","a">>, Flags |-> <<>>], [Value |-> <<"/","l","o","g","s">>, Flags |-> <<>>]>>,
     Attributes |-> {}],
    \* 82:  VOLUME ["/data"]
    [Raw |-> <<<<"V","O","L","U","M","E"," ","[","\"","/","d","a","t","a","\"","]">>>>,
     Err |-> FALSE,
     Value |-> <<"V","O","L","U","M","E">>,
     Original |-> <<"V","O","L","U","M","E"," ","[","\"","/","d","a","t","a","\"","]">>,
     Flags |-> <<>>,
     HasNext |-> TRUE,
     Next |-> <<[Value |-> <<"/","d","a","t","a">>, Flags |-> <<>>]>>,
     Attributes |-> {"json"}],
    \* 83:  VOLUME ['/data']
    [Raw |-> <<<<"V","O","L","U","M","E"," ","[","'","/","d","a","t","a","'","]">>>>,
     Err |-> FALSE,
     Value |-> <<"V","O","L","U","M","E">>,
     Original |-> <<"V","O","L","U","M","E"," ","[","'","/","d","a","t","a","'","]">>,
     Flags |-> <<>>,
     HasNext |-> TRUE,
     Next |-> <<[Value |-> <<"[","'","/","d","a","t","a","'","]">>, Flags |-> <<>>]>>,
     Attributes |-> {}],
    \* 84:  VOLUME [""]
    [Raw |-> <<<<"V","O","L","U","M","E"," ","[","\"","\"","]">>>>,
     Err |-> FALSE,
     Value |-> <<"V","O","L","U","M","E">>,
     Original |-> <<"V","O","L","U","M","E"," ","[","\"","\"","]">>,
     Flags |-> <<>>,
     HasNext |-> TRUE,
     Next |-> <<[Value |-> <<>>, Flags |-> <<>>]>>,
     Attributes |-> {"json"}],
    \* 85:  USER
    [Raw |-> <<<<"U","S","E","R">>>>,
     Err |-> FALSE,
     Value |-> <<"U","S","E","R">>,
     Original |-> <<"U","S","E","R">>,
     Flags |-> <<>>,
     HasNext |-> FALSE,
     Next |-> <<>>,
     Attributes |-> {}],
    \* 86:  USER app
    [Raw |-> <<<<"U","S","E","R"," ","a","p","p">>>>,
     Err |-> FALSE,
     Value |-> <<"U","S","E","R">>,
     Original |-> <<"U","S","E","R"," ","a","p","p">>,
     Flags |-> <<>>,
     HasNext |-> TRUE,
     Next |-> <<[Value |-> <<"a","p","p">>, Flags |-> <<>>]>>,
     Attributes |-> {}],
    \* 87:  USER 1000:1000
    [Raw |-> <<<<"U","S","E","R"," ","1","0","0","0",":","1","0","0","0">>>>,
     Err |-> FALSE,
     Value |-> <<"U","S","E","R">>,
     Original |-> <<"U","S","E","R"," ","1","0","0","0",":","1","0","0","0">>,
     Flags |-> <<>>,
     HasNext |-> TRUE,
     Next |-> <<[Value |-> <<"1","0","0","0",":","1","0","0","0">>, Flags |-> <<>>]>>,
     Attributes |-> {}],
    \* 88:  USER a b
    [Raw |-> <<<<"U","S","E","R"," ","a"," ","b">>>>,
     Err |-> FALSE,
     Value |-> <<"U","S","E","R">>,
     Original |-> <<"U","S","E","R"," ","a"," ","b">>,
     Flags |-> <<>>,
     HasNext |-> TRUE,
     Next |-> <<[Value |-> <<"a"," ","b">>, Flags |-> <<>>]>>,
     Attributes |-> {}],
    \* 89:  USER a:b:c
    [Raw |-> <<<<"U","S","E","R"," ","a",":","b",":","c">>>>,
     Err |-> FALSE,
     Value |-> <<"U","S","E","R">>,
     Original |-> <<"U","S","E","R"," ","a",":","b",":","c">>,
     Flags |-> <<>>,
     HasNext |-> TRUE,
     Next |-> <<[Value |-> <<"a",":","b",":","c">>, Flags |-> <<>>]>>,
     Attributes |-> {}],
    \* 90:  LABEL
    [Raw |-> <<<<"L","A","B","E","L">>>>,
     Err |-> FALSE,
     Value |-> <<"L","A","B","E","L">>,
     Original |-> <<"L","A","B","E","L">>,
     Flags |-> <<>>,
     HasNext |-> FALSE,
     Next |-> <<>>,
     Attributes |-> {}],
    \* 91:  LABEL a=b c=d
    [Raw |-> <<<<"L","A","B","E","L"," ","a","=","b"," ","c","=","d">>>>,
     Err |-> FALSE,
     Value |-> <<"L","A","B","E","L">>,
     Original |-> <<"L","A","B","E","L"," ","a","=","b"," ","c","=","d">>,
     Flags |-> <<>>,
     HasNext |-> TRUE,
     Next |-> <<[Value |-> <<"a">>, Flags |-> <<>>], [Value |-> <<"b">>, Flags |-> <<>>], [Value |-> <<"=">>, Flags |-> <<>>], [Value |-> <<"c">>, Flags |-> <<>>], [Value |-> <<"d">>, Flags |-> <<>>], [Value |-> <<"=">>, Flags |-> <<>>]>>,
     Attributes |-> {}],
    \* 92:  LABEL a b
    [Raw |-> <<<<"L","A","B","E","L"," ","a"," ","b">>>>,
     Err |-> FALSE,
     Value |-> <<"L","A","B","E","L">>,
     Original |-> <<"L","A","B","E","L"," ","a"," ","b">>,
     Flags |-> <<>>,
     HasNext |-> TRUE,
     Next |-> <<[Value |-> <<"a">>, Flags |-> <<>>], [Value |-> <<"b">>, Flags |-> <<>>], [Value |-> <<>>, Flags |-> <<>>]>>,
     Attributes |-> {}],
    \* 93:  LABEL =b
    [Raw |-> <<<<"L","A","B","E","L"," ","=","b">>>>,
     Err |-> FALSE,
     Value |-> <<"L","A","B","E","L">>,
     Original |-> <<"L","A","B","E","L"," ","=","b">>,
     Flags |-> <<>>,
     HasNext |-> TRUE,
     Next |-> <<[Value |-> <<>>, Flags |-> <<>>], [Value |-> <<"b">>, Flags |-> <<>>], [Value |-> <<"=">>, Flags |-> <<>>]>>,
     Attributes |-> {}],
    \* 94:  ENV
    [Raw |-> <<<<"E","N","V">>>>,
     Err |-> FALSE,
     Value |-> <<"E","N","V">>,
     Original |-> <<"E","N","V">>,
     Flags |-> <<>>,
     HasNext |-> FALSE,
     Next |-> <<>>,
     Attributes |-> {}],
    \* 95:  ENV A=b
    [Raw |-> <<<<"E","N","V"," ","A","=","b">>>>,
     Err |-> FALSE,
     Value |-> <<"E","N","V">>,
     Original |-> <<"E","N","V"," ","A","=","b">>,
     Flags |-> <<>>,
     HasNext |-> TRUE,
     Next |-> <<[Value |-> <<"A">>, Flags |-> <<>>], [Value |-> <<"b">>, Flags |-> <<>>], [Value |-> <<"=">>, Flags |-> <<>>]>>,
     Attributes |-> {}],
    \* 96:  ENV A b
    [Raw |-> <<<<"E","N","V"," ","A"," ","b">>>>,
     Err |-> FALSE,
     Value |-> <<"E","N","V">>,
     Original |-> <<"E","N","V"," ","A"," ","b">>,
     Flags |-> <<>>,
     HasNext |-> TRUE,
     Next |-> <<[Value |-> <<"A">>, Flags |-> <<>>], [Value |-> <<"b">>, Flags |-> <<>>], [Value |-> <<>>, Flags |-> <<>>]>>,
     Attributes |-> {}],
    \* 97:  ENV =b
    [Raw |-> <<<<"E","N","V"," ","=","b">>>>,
     Err |-> FALSE,
     Value |-> <<"E","N","V">>,
     Original |-> <<"E","N","V"," ","=","b">>,
     Flags |-> <<>>,
     HasNext |-> TRUE,
     Next |-> <<[Value |-> <<>>, Flags |-> <<>>], [Value |-> <<"b">>, Flags |-> <<>>], [Value |-> <<"=">>, Flags |-> <<>>]>>,
     Attributes |-> {}],
    \* 98:  ENV A
    [Raw |-> <<<<"E","N","V"," ","A">>>>,
     Err |-> TRUE,
     Value |-> <<"E","N","V">>,
     Original |-> <<"E","N","V"," ","A">>,
     Flags |-> <<>>,
     HasNext |-> FALSE,
     Next |-> <<>>,
     Attributes |-> {}],
    \* 99:  ENV SECRET_KEY=x PUBLIC_KEY=y
    [Raw |-> <<<<"E","N","V"," ","S","E","C","R","E","T","_","K","E","Y","=","x"," ","P","U","B","L","I","C","_","K","E","Y","=","y">>>>,
     Err |-> FALSE,
     Value |-> <<"E","N","V">>,
     Original |-> <<"E","N","V"," ","S","E","C","R","E","T","_","K","E","Y","=","x"," ","P","U","B","L","I","C","_","K","E","Y","=","y">>,
     Flags |-> <<>>,
     HasNext |-> TRUE,
     Next |-> <<[Value |-> <<"S","E","C","R","E","T","_","K","E","Y">>, Flags |-> <<>>], [Value |-> <<"x">>, Flags |-> <<>>], [Value |-> <<"=">>, Flags |-> <<>>], [Value |-> <<"P","U","B","L","I","C","_","K","E","Y">>, Flags |-> <<>>], [Value |-> <<"y">>, Flags |-> <<>>], [Value |-> <<"=">>, Flags |-> <<>>]>>,
     Attributes |-> {}],
    \* 100:  ARG
    [Raw |-> <<<<"A","R","G">>>>,
     Err |-> FALSE,
     Value |-> <<"A","R","G">>,
     Original |-> <<"A","R","G">>,
     Flags |-> <<>>,
     HasNext |-> FALSE,
     Next |-> <<>>,
     Attributes |-> {}],
    \* 101:  ARG A=1 B
    [Raw |-> <<<<"A","R","G"," ","A","=","1"," ","B">>>>,
     Err |-> FALSE,
     Value |-> <<"A","R","G">>,
     Original |-> <<"A","R","G"," ","A","=","1"," ","B">>,
     Flags |-> <<>>,
     HasNext |-> TRUE,
     Next |-> <<[Value |-> <<"A","=","1">>, Flags |-> <<>>], [Value |-> <<"B">>, Flags |-> <<>>]>>,
     Attributes |-> {}],
    \* 102:  ARG 1A
    [Raw |-> <<<<"A","R","G"," ","1","A">>>>,
     Err |-> FALSE,
     Value |-> <<"A","R","G">>,
     Original |-> <<"A","R","G"," ","1","A">>,
     Flags |-> <<>>,
     HasNext |-> TRUE,
     Next |-> <<[Value |-> <<"1","A">>, Flags |-> <<>>]>>,
     Attributes |-> {}],
    \* 103:  ARG a b
    [Raw |-> <<<<"A","R","G"," ","a"," ","b">>>>,
     Err |-> FALSE,
     Value |-> <<"A","R","G">>,
     Original |-> <<"A","R","G"," ","a"," ","b">>,
     Flags |-> <<>>,
     HasNext |-> TRUE,
     Next |-> <<[Value |-> <<"a">>, Flags |-> <<>>], [Value |-> <<"b">>, Flags |-> <<>>]>>,
     Attributes |-> {}],
    \* 104:  ARG 1a b
    [Raw |-> <<<<"A","R","G"," ","1","a"," ","b">>>>,
     Err |-> FALSE,
     Value |-> <<"A","R","G">>,
     Original |-> <<"A","R","G"," ","1","a"," ","b">>,
     Flags |-> <<>>,
     HasNext |-> TRUE,
     Next |-> <<[Value |-> <<"1","a">>, Flags |-> <<>>], [Value |-> <<"b">>, Flags |-> <<>>]>>,
     Attributes |-> {}],
    \* 105:  ARG A=$B
    [Raw |-> <<<<"A","R","G"," ","A","=","$","B">>>>,
     Err |-> FALSE,
     Value |-> <<"A","R","G">>,
     Original |-> <<"A","R","G"," ","A","=","$","B">>,
     Flags |-> <<>>,
     HasNext |-> TRUE,
     Next |-> <<[Value |-> <<"A","=","$","B">>, Flags |-> <<>>]>>,
     Attributes |-> {}],
    \* 106:  COPY
    [Raw |-> <<<<"C","O","P","Y">>>>,
     Err |-> FALSE,
     Value |-> <<"C","O","P","Y">>,
     Original |-> <<"C","O","P","Y">>,
     Flags |-> <<>>,
     HasNext |-> FALSE,
     Next |-> <<>>,
     Attributes |-> {}],
    \* 107:  COPY a
    [Raw |-> <<<<"C","O","P","Y"," ","a">>>>,
     Err |-> FALSE,
     Value |-> <<"C","O","P","Y">>,
     Original |-> <<"C","O","P","Y"," ","a">>,
     Flags |-> <<>>,
     HasNext |-> TRUE,
     Next |-> <<[Value |-> <<"a">>, Flags |-> <<>>]>>,
     Attributes |-> {}],
    \* 108:  COPY a b
    [Raw |-> <<<<"C","O","P","Y"," ","a"," ","b">>>>,
     Err |-> FALSE,
     Value |-> <<"C","O","P","Y">>,
     Original |-> <<"C","O","P","Y"," ","a"," ","b">>,
     Flags |-> <<>>,
     HasNext |-> TRUE,
     Next |-> <<[Value |-> <<"a">>, Flags |-> <<>>], [Value |-> <<"b">>, Flags |-> <<>>]>>,
     Attributes |-> {}],
    \* 109:  COPY --from=x a b
    [Raw |-> <<<<"C","O","P","Y"," ","-","-","f","r","o","m","=","x"," ","a"," ","b">>>>,
     Err |-> FALSE,
     Value |-> <<"C","O","P","Y">>,
     Original |-> <<"C","O","P","Y"," ","-","-","f","r","o","m","=","x"," ","a"," ","b">>,
     Flags |-> <<<<"-","-","f","r","o","m","=","x">>>>,
     HasNext |-> TRUE,
     Next |-> <<[Value |-> <<"a">>, Flags |-> <<>>], [Value |-> <<"b">>, Flags |-> <<>>]>>,
     Attributes |-> {}],
    \* 110:  COPY --bad=1 a b
    [Raw |-> <<<<"C","O","P","Y"," ","-","-","b","a","d","=","1"," ","a"," ","b">>>>,
     Err |-> FALSE,
     Value |-> <<"C","O","P","Y">>,
     Original |-> <<"C","O","P","Y"," ","-","-","b","a","d","=","1"," ","a"," ","b">>,
     Flags |-> <<<<"-","-","b","a","d","=","1">>>>,
     HasNext |-> TRUE,
     Next |-> <<[Value |-> <<"a">>, Flags |-> <<>>], [Value |-> <<"b">>, Flags |-> <<>>]>>,
     Attributes |-> {}],
    \* 111:  COPY ["a","b"]
    [Raw |-> <<<<"C","O","P","Y"," ","[","\"","a","\"",",","\"","b","\"","]">>>>,
     Err |-> FALSE,
     Value |-> <<"C","O","P","Y">>,
     Original |-> <<"C","O","P","Y"," ","[","\"","a","\"",",","\"","b","\"","]">>,
     Flags |-> <<>>,
     HasNext |-> TRUE,
     Next |-> <<[Value |-> <<"a">>, Flags |-> <<>>], [Value |-> <<"b">>, Flags |-> <<>>]>>,
     Attributes |-> {"json"}],
    \* 112:  ADD
    [Raw |-> <<<<"A","D","D">>>>,
     Err |-> FALSE,
     Value |-> <<"A","D","D">>,
     Original |-> <<"A","D","D">>,
     Flags |-> <<>>,
     HasNext |-> FALSE,
     Next |-> <<>>,
     Attributes |-> {}],
    \* 113:  ADD a
    [Raw |-> <<<<"A","D","D"," ","a">>>>,
     Err |-> FALSE,
     Value |-> <<"A","D","D">>,
     Original |-> <<"A","D","D"," ","a">>,
     Flags |-> <<>>,
     HasNext |-> TRUE,
     Next |-> <<[Value |-> <<"a">>, Flags |-> <<>>]>>,
     Attributes |-> {}],
    \* 114:  ADD a b
    [Raw |-> <<<<"A","D","D"," ","a"," ","b">>>>,
     Err |-> FALSE,
     Value |-> <<"A","D","D">>,
     Original |-> <<"A","D","D"," ","a"," ","b">>,
     Flags |-> <<>>,
     HasNext |-> TRUE,
     Next |-> <<[Value |-> <<"a">>, Flags |-> <<>>], [Value |-> <<"b">>, Flags |-> <<>>]>>,
     Attributes |-> {}],
    \* 115:  ADD --chown=1 a b
    [Raw |-> <<<<"A","D","D"," ","-","-","c","h","o","w","n","=","1"," ","a"," ","b">>>>,
     Err |-> FALSE,
     Value |-> <<"A","D","D">>,
     Original |-> <<"A","D","D"," ","-","-","c","h","o","w","n","=","1"," ","a"," ","b">>,
     Flags |-> <<<<"-","-","c","h","o","w","n","=","1">>>>,
     HasNext |-> TRUE,
     Next |-> <<[Value |-> <<"a">>, Flags |-> <<>>], [Value |-> <<"b">>, Flags |-> <<>>]>>,
     Attributes |-> {}],
    \* 116:  ADD --bad a b
    [Raw |-> <<<<"A","D","D"," ","-","-","b","a","d"," ","a"," ","b">>>>,
     Err |-> FALSE,
     Value |-> <<"A","D","D">>,
     Original |-> <<"A","D","D"," ","-","-","b","a","d"," ","a"," ","b">>,
     Flags |-> <<<<"-","-","b","a","d">>>>,
     HasNext |-> TRUE,
     Next |-> <<[Value |-> <<"a">>, Flags |-> <<>>], [Value |-> <<"b">>, Flags |-> <<>>]>>,
     Attributes |-> {}],
    \* 117:  HEALTHCHECK
    [Raw |-> <<<<"H","E","A","L","T","H","C","H","E","C","K">>>>,
     Err |-> FALSE,
     Value |-> <<"H","E","A","L","T","H","C","H","E","C","K">>,
     Original |-> <<"H","E","A","L","T","H","C","H","E","C","K">>,
     Flags |-> <<>>,
     HasNext |-> FALSE,
     Next |-> <<>>,
     Attributes |-> {}],
    \* 118:  HEALTHCHECK NONE
    [Raw |-> <<<<"H","E","A","L","T","H","C","H","E","C","K"," ","N","O","N","E">>>>,
     Err |-> FALSE,
     Value |-> <<"H","E","A","L","T","H","C","H","E","C","K">>,
     Original |-> <<"H","E","A","L","T","H","C","H","E","C","K"," ","N","O","N","E">>,
     Flags |-> <<>>,
     HasNext |-> TRUE,
     Next |-> <<[Value |-> <<"N","O","N","E">>, Flags |-> <<>>]>>,
     Attributes |-> {}],
    \* 119:  HEALTHCHECK --interval=5s CMD curl -f x
    [Raw |-> <<<<"H","E","A","L","T","H","C","H","E","C","K"," ","-","-","i","n","t","e","r","v","a","l","=","5","s"," ","C","M","D"," ","c","u","r","l"," ","-","f"," ","x">>>>,
     Err |-> FALSE,
     Value |-> <<"H","E","A","L","T","H","C","H","E","C","K">>,
     Original |-> <<"H","E","A","L","T","H","C","H","E","C","K"," ","-","-","i","n","t","e","r","v","a","l","=","5","s"," ","C","M","D"," ","c","u","r","l"," ","-","f"," ","x">>,
     Flags |-> <<<<"-","-","i","n","t","e","r","v","a","l","=","5","s">>>>,
     HasNext |-> TRUE,
     Next |-> <<[Value |-> <<"C","M","D">>, Flags |-> <<>>], [Value |-> <<"c","u","r","l"," ","-","f"," ","x">>, Flags |-> <<>>]>>,
     Attributes |-> {}],
    \* 120:  HEALTHCHECK curl
    [Raw |-> <<<<"H","E","A","L","T","H","C","H","E","C","K"," ","c","u","r","l">>>>,
     Err |-> FALSE,
     Value |-> <<"H","E","A","L","T","H","C","H","E","C","K">>,
     Original |-> <<"H","E","A","L","T","H","C","H","E","C","K"," ","c","u","r","l">>,
     Flags |-> <<>>,
     HasNext |-> TRUE,
     Next |-> <<[Value |-> <<"c","u","r","l">>, Flags |-> <<>>]>>,
     Attributes |-> {}],
    \* 121:  ONBUILD
    [Raw |-> <<<<"O","N","B","U","I","L","D">>>>,
     Err |-> FALSE,
     Value |-> <<"O","N","B","U","I","L","D">>,
     Original |-> <<"O","N","B","U","I","L","D">>,
     Flags |-> <<>>,
     HasNext |-> FALSE,
     Next |-> <<>>,
     Attributes |-> {}],
    \* 122:  ONBUILD RUN make
    [Raw |-> <<<<"O","N","B","U","I","L","D"," ","R","U","N"," ","m","a","k","e">>>>,
     Err |-> FALSE,
     Value |-> <<"O","N","B","U","I","L","D">>,
     Original |-> <<"O","N","B","U","I","L","D"," ","R","U","N"," ","m","a","k","e">>,
     Flags |-> <<>>,
     HasNext |-> TRUE,
     Next |-> <<[Value |-> <<>>, Flags |-> <<>>]>>,
     Attributes |-> {}],
    \* 123:  STOPSIGNAL
    [Raw |-> <<<<"S","T","O","P","S","I","G","N","A","L">>>>,
     Err |-> FALSE,
     Value |-> <<"S","T","O","P","S","I","G","N","A","L">>,
     Original |-> <<"S","T","O","P","S","I","G","N","A","L">>,
     Flags |-> <<>>,
     HasNext |-> FALSE,
     Next |-> <<>>,
     Attributes |-> {}],
    \* 124:  STOPSIGNAL SIGTERM
    [Raw |-> <<<<"S","T","O","P","S","I","G","N","A","L"," ","S","I","G","T","E","R","M">>>>,
     Err |-> FALSE,
     Value |-> <<"S","T","O","P","S","I","G","N","A","L">>,
     Original |-> <<"S","T","O","P","S","I","G","N","A","L"," ","S","I","G","T","E","R","M">>,
     Flags |-> <<>>,
     HasNext |-> TRUE,
     Next |-> <<[Value |-> <<"S","I","G","T","E","R","M">>, Flags |-> <<>>]>>,
     Attributes |-> {}],
    \* 125:  MAINTAINER
    [Raw |-> <<<<"M","A","I","N","T","A","I","N","E","R">>>>,
     Err |-> FALSE,
     Value |-> <<"M","A","I","N","T","A","I","N","E","R">>,
     Original |-> <<"M","A","I","N","T","A","I","N","E","R">>,
     Flags |-> <<>>,
     HasNext |-> FALSE,
     Next |-> <<>>,
     Attributes |-> {}],
    \* 126:  MAINTAINER me <me@example.com>
    [Raw |-> <<<<"M","A","I","N","T","A","I","N","E","R"," ","m","e"," ","<","m","e","@","e","x","a","m","p","l","e",".","c","o","m",">">>>>,
     Err |-> FALSE,
     Value |-> <<"M","A","I","N","T","A","I","N","E","R">>,
     Original |-> <<"M","A","I","N","T","A","I","N","E","R"," ","m","e"," ","<","m","e","@","e","x","a","m","p","l","e",".","c","o","m",">">>,
     Flags |-> <<>>,
     HasNext |-> TRUE,
     Next |-> <<[Value |-> <<"m","e"," ","<","m","e","@","e","x","a","m","p","l","e",".","c","o","m",">">>, Flags |-> <<>>]>>,
     Attributes |-> {}],
    \* 127:  FOO
    [Raw |-> <<<<"F","O","O">>>>,
     Err |-> FALSE,
     Value |-> <<"F","O","O">>,
     Original |-> <<"F","O","O">>,
     Flags |-> <<>>,
     HasNext |-> TRUE,
     Next |-> <<[Value |-> <<>>, Flags |-> <<>>]>>,
     Attributes |-> {}],
    \* 128:  CMD [1]
    [Raw |-> <<<<"C","M","D"," ","[","1","]">>>>,
     Err |-> TRUE,
     Value |-> <<"C","M","D">>,
     Original |-> <<"C","M","D"," ","[","1","]">>,
     Flags |-> <<>>,
     HasNext |-> FALSE,
     Next |-> <<>>,
     Attributes |-> {}],
    \* 129:  cmd ["a"]
    [Raw |-> <<<<"c","m","d"," ","[","\"","a","\"","]">>>>,
     Err |-> FALSE,
     Value |-> <<"c","m","d">>,
     Original |-> <<"c","m","d"," ","[","\"","a","\"","]">>,
     Flags |-> <<>>,
     HasNext |-> TRUE,
     Next |-> <<[Value |-> <<"a">>, Flags |-> <<>>]>>,
     Attributes |-> {"json"}],
    \* 130:  FROM alpine AS build
    [Raw |-> <<<<"F","R","O","M"," ","a","l","p","i","n","e"," ","A","S"," ","b","u","i","l","d">>>>,
     Err |-> FALSE,
     Value |-> <<"F","R","O","M">>,
     Original |-> <<"F","R","O","M"," ","a","l","p","i","n","e"," ","A","S"," ","b","u","i","l","d">>,
     Flags |-> <<>>,
     HasNext |-> TRUE,
     Next |-> <<[Value |-> <<"a","l","p","i","n","e">>, Flags |-> <<>>], [Value |-> <<"A","S">>, Flags |-> <<>>], [Value |-> <<"b","u","i","l","d">>, Flags |-> <<>>]>>,
     Attributes |-> {}],
    \* 131:  FROM alpine AS BUILD
    [Raw |-> <<<<"F","R","O","M"," ","a","l","p","i","n","e"," ","A","S"," ","B","U","I","L","D">>>>,
     Err |-> FALSE,
     Value |-> <<"F","R","O","M">>,
     Original |-> <<"F","R","O","M"," ","a","l","p","i","n","e"," ","A","S"," ","B","U","I","L","D">>,
     Flags |-> <<>>,
     HasNext |-> TRUE,
     Next |-> <<[Value |-> <<"a","l","p","i","n","e">>, Flags |-> <<>>], [Value |-> <<"A","S">>, Flags |-> <<>>], [Value |-> <<"B","U","I","L","D">>, Flags |-> <<>>]>>,
     Attributes |-> {}],
    \* 132:  FROM --platform=linux/amd64 node AS build_amd64
    [Raw |-> <<<<"F","R","O","M"," ","-","-","p","l","a","t","f","o","r","m","=","l","i","n","u","x","/","a","m","d","6","4"," ","n","o","d","e"," ","A","S"," ","b","u","i","l","d","_","a","m","d","6","4">>>>,
     Err |-> FALSE,
     Value |-> <<"F","R","O","M">>,
     Original |-> <<"F","R","O","M"," ","-","-","p","l","a","t","f","o","r","m","=","l","i","n","u","x","/","a","m","d","6","4"," ","n","o","d","e"," ","A","S"," ","b","u","i","l","d","_","a","m","d","6","4">>,
     Flags |-> <<<<"-","-","p","l","a","t","f","o","r","m","=","l","i","n","u","x","/","a","m","d","6","4">>>>,
     HasNext |-> TRUE,
     Next |-> <<[Value |-> <<"n","o","d","e">>, Flags |-> <<>>], [Value |-> <<"A","S">>, Flags |-> <<>>], [Value |-> <<"b","u","i","l","d","_","a","m","d","6","4">>, Flags |-> <<>>]>>,
     Attributes |-> {}],
    \* 133:  FROM node AS build
    [Raw |-> <<<<"F","R","O","M"," ","n","o","d","e"," ","A","S"," ","b","u","i","l","d">>>>,
     Err |-> FALSE,
     Value |-> <<"F","R","O","M">>,
     Original |-> <<"F","R","O","M"," ","n","o","d","e"," ","A","S"," ","b","u","i","l","d">>,
     Flags |-> <<>>,
     HasNext |-> TRUE,
     Next |-> <<[Value |-> <<"n","o","d","e">>, Flags |-> <<>>], [Value |-> <<"A","S">>, Flags |-> <<>>], [Value |-> <<"b","u","i","l","d">>, Flags |-> <<>>]>>,
     Attributes |-> {}],
    \* 134:  FROM build
    [Raw |-> <<<<"F","R","O","M"," ","b","u","i","l","d">>>>,
     Err |-> FALSE,
     Value |-> <<"F","R","O","M">>,
     Original |-> <<"F","R","O","M"," ","b","u","i","l","d">>,
     Flags |-> <<>>,
     HasNext |-> TRUE,
     Next |-> <<[Value |-> <<"b","u","i","l","d">>, Flags |-> <<>>]>>,
     Attributes |-> {}],
    \* 135:  FROM build_${TARGETARCH}
    [Raw |-> <<<<"F","R","O","M"," ","b","u","i","l","d","_","$","{","T","A","R","G","E","T","A","R","C","H","}">>>>,
     Err |-> FALSE,
     Value |-> <<"F","R","O","M">>,
     Original |-> <<"F","R","O","M"," ","b","u","i","l","d","_","$","{","T","A","R","G","E","T","A","R","C","H","}">>,
     Flags |-> <<>>,
     HasNext |-> TRUE,
     Next |-> <<[Value |-> <<"b","u","i","l","d","_","$","{","T","A","R","G","E","T","A","R","C","H","}">>, Flags |-> <<>>]>>,
     Attributes |-> {}],
    \* 136:  FROM --platform=linux/amd64 node AS node_x
    [Raw |-> <<<<"F","R","O","M"," ","-","-","p","l","a","t","f","o","r","m","=","l","i","n","u","x","/","a","m","d","6","4"," ","n","o","d","e"," ","A","S"," ","n","o","d","e","_","x">>>>,
     Err |-> FALSE,
     Value |-> <<"F","R","O","M">>,
     Original |-> <<"F","R","O","M"," ","-","-","p","l","a","t","f","o","r","m","=","l","i","n","u","x","/","a","m","d","6","4"," ","n","o","d","e"," ","A","S"," ","n","o","d","e","_","x">>,
     Flags |-> <<<<"-","-","p","l","a","t","f","o","r","m","=","l","i","n","u","x","/","a","m","d","6","4">>>>,
     HasNext |-> TRUE,
     Next |-> <<[Value |-> <<"n","o","d","e">>, Flags |-> <<>>], [Value |-> <<"A","S">>, Flags |-> <<>>], [Value |-> <<"n","o","d","e","_","x">>, Flags |-> <<>>]>>,
     Attributes |-> {}],
    \* 137:  FROM --platform=linux/amd64 node
    [Raw |-> <<<<"F","R","O","M"," ","-","-","p","l","a","t","f","o","r","m","=","l","i","n","u","x","/","a","m","d","6","4"," ","n","o","d","e">>>>,
     Err |-> FALSE,
     Value |-> <<"F","R","O","M">>,
     Original |-> <<"F","R","O","M"," ","-","-","p","l","a","t","f","o","r","m","=","l","i","n","u","x","/","a","m","d","6","4"," ","n","o","d","e">>,
     Flags |-> <<<<"-","-","p","l","a","t","f","o","r","m","=","l","i","n","u","x","/","a","m","d","6","4">>>>,
     HasNext |-> TRUE,
     Next |-> <<[Value |-> <<"n","o","d","e">>, Flags |-> <<>>]>>,
     Attributes |-> {}],
    \* 138:  FROM BUILD_AMD64
    [Raw |-> <<<<"F","R","O","M"," ","B","U","I","L","D","_","A","M","D","6","4">>>>,
     Err |-> FALSE,
     Value |-> <<"F","R","O","M">>,
     Original |-> <<"F","R","O","M"," ","B","U","I","L","D","_","A","M","D","6","4">>,
     Flags |-> <<>>,
     HasNext |-> TRUE,
     Next |-> <<[Value |-> <<"B","U","I","L","D","_","A","M","D","6","4">>, Flags |-> <<>>]>>,
     Attributes |-> {}],
    \* 139:  FROM --platform=$BUILDPLATFORM node AS v
    [Raw |-> <<<<"F","R","O","M"," ","-","-","p","l","a","t","f","o","r","m","=","$","B","U","I","L","D","P","L","A","T","F","O","R","M"," ","n","o","d","e"," ","A","S"," ","v">>>>,
     Err |-> FALSE,
     Value |-> <<"F","R","O","M">>,
     Original |-> <<"F","R","O","M"," ","-","-","p","l","a","t","f","o","r","m","=","$","B","U","I","L","D","P","L","A","T","F","O","R","M"," ","n","o","d","e"," ","A","S"," ","v">>,
     Flags |-> <<<<"-","-","p","l","a","t","f","o","r","m","=","$","B","U","I","L","D","P","L","A","T","F","O","R","M">>>>,
     HasNext |-> TRUE,
     Next |-> <<[Value |-> <<"n","o","d","e">>, Flags |-> <<>>], [Value |-> <<"A","S">>, Flags |-> <<>>], [Value |-> <<"v">>, Flags |-> <<>>]>>,
     Attributes |-> {}],
    \* 140:  ARG A
    [Raw |-> <<<<"A","R","G"," ","A">>>>,
     Err |-> FALSE,
     Value |-> <<"A","R","G">>,
     Original |-> <<"A","R","G"," ","A">>,
     Flags |-> <<>>,
     HasNext |-> TRUE,
     Next |-> <<[Value |-> <<"A">>, Flags |-> <<>>]>>,
     Attributes |-> {}],
    \* 141:  ENV B=1
    [Raw |-> <<<<"E","N","V"," ","B","=","1">>>>,
     Err |-> FALSE,
     Value |-> <<"E","N","V">>,
     Original |-> <<"E","N","V"," ","B","=","1">>,
     Flags |-> <<>>,
     HasNext |-> TRUE,
     Next |-> <<[Value |-> <<"B">>, Flags |-> <<>>], [Value |-> <<"1">>, Flags |-> <<>>], [Value |-> <<"=">>, Flags |-> <<>>]>>,
     Attributes |-> {}],
    \* 142:  COPY $A $TARGETOS $B
    [Raw |-> <<<<"C","O","P","Y"," ","$","A"," ","$","T","A","R","G","E","T","O","S"," ","$","B">>>>,
     Err |-> FALSE,
     Value |-> <<"C","O","P","Y">>,
     Original |-> <<"C","O","P","Y"," ","$","A"," ","$","T","A","R","G","E","T","O","S"," ","$","B">>,
     Flags |-> <<>>,
     HasNext |-> TRUE,
     Next |-> <<[Value |-> <<"$","A">>, Flags |-> <<>>], [Value |-> <<"$","T","A","R","G","E","T","O","S">>, Flags |-> <<>>], [Value |-> <<"$","B">>, Flags |-> <<>>]>>,
     Attributes |-> {}],
    \* 143:  ARG A=$A
    [Raw |-> <<<<"A","R","G"," ","A","=","$","A">>>>,
     Err |-> FALSE,
     Value |-> <<"A","R","G">>,
     Original |-> <<"A","R","G"," ","A","=","$","A">>,
     Flags |-> <<>>,
     HasNext |-> TRUE,
     Next |-> <<[Value |-> <<"A","=","$","A">>, Flags |-> <<>>]>>,
     Attributes |-> {}],
    \* 144:  ENV B=$A
    [Raw |-> <<<<"E","N","V"," ","B","=","$","A">>>>,
     Err |-> FALSE,
     Value |-> <<"E","N","V">>,
     Original |-> <<"E","N","V"," ","B","=","$","A">>,
     Flags |-> <<>>,
     HasNext |-> TRUE,
     Next |-> <<[Value |-> <<"B">>, Flags |-> <<>>], [Value |-> <<"$","A">>, Flags |-> <<>>], [Value |-> <<"=">>, Flags |-> <<>>]>>,
     Attributes |-> {}],
    \* 145:  ARG C D=$B
    [Raw |-> <<<<"A","R","G"," ","C"," ","D","=","$","B">>>>,
     Err |-> FALSE,
     Value |-> <<"A","R","G">>,
     Original |-> <<"A","R","G"," ","C"," ","D","=","$","B">>,
     Flags |-> <<>>,
     HasNext |-> TRUE,
     Next |-> <<[Value |-> <<"C">>, Flags |-> <<>>], [Value |-> <<"D","=","$","B">>, Flags |-> <<>>]>>,
     Attributes |-> {}],
    \* 146:  FROM $A/img:${B}
    [Raw |-> <<<<"F","R","O","M"," ","$","A","/","i","m","g",":","$","{","B","}">>>>,
     Err |-> FALSE,
     Value |-> <<"F","R","O","M">>,
     Original |-> <<"F","R","O","M"," ","$","A","/","i","m","g",":","$","{","B","}">>,
     Flags |-> <<>>,
     HasNext |-> TRUE,
     Next |-> <<[Value |-> <<"$","A","/","i","m","g",":","$","{","B","}">>, Flags |-> <<>>]>>,
     Attributes |-> {}],
    \* 147:  FROM ${A}:$TARGETARCH
    [Raw |-> <<<<"F","R","O","M"," ","$","{","A","}",":","$","T","A","R","G","E","T","A","R","C","H">>>>,
     Err |-> FALSE,
     Value |-> <<"F","R","O","M">>,
     Original |-> <<"F","R","O","M"," ","$","{","A","}",":","$","T","A","R","G","E","T","A","R","C","H">>,
     Flags |-> <<>>,
     HasNext |-> TRUE,
     Next |-> <<[Value |-> <<"$","{","A","}",":","$","T","A","R","G","E","T","A","R","C","H">>, Flags |-> <<>>]>>,
     Attributes |-> {}],
    \* 148:  FROM $A$A
    [Raw |-> <<<<"F","R","O","M"," ","$","A","$","A">>>>,
     Err |-> FALSE,
     Value |-> <<"F","R","O","M">>,
     Original |-> <<"F","R","O","M"," ","$","A","$","A">>,
     Flags |-> <<>>,
     HasNext |-> TRUE,
     Next |-> <<[Value |-> <<"$","A","$","A">>, Flags |-> <<>>]>>,
     Attributes |-> {}],
    \* 149:  ARG B=1
    [Raw |-> <<<<"A","R","G"," ","B","=","1">>>>,
     Err |-> FALSE,
     Value |-> <<"A","R","G">>,
     Original |-> <<"A","R","G"," ","B","=","1">>,
     Flags |-> <<>>,
     HasNext |-> TRUE,
     Next |-> <<[Value |-> <<"B","=","1">>, Flags |-> <<>>]>>,
     Attributes |-> {}],
    \* 150:  FROM alpine:${A}
    [Raw |-> <<<<"F","R","O","M"," ","a","l","p","i","n","e",":","$","{","A","}">>>>,
     Err |-> FALSE,
     Value |-> <<"F","R","O","M">>,
     Original |-> <<"F","R","O","M"," ","a","l","p","i","n","e",":","$","{","A","}">>,
     Flags |-> <<>>,
     HasNext |-> TRUE,
     Next |-> <<[Value |-> <<"a","l","p","i","n","e",":","$","{","A","}">>, Flags |-> <<>>]>>,
     Attributes |-> {}],
    \* 151:  FROM alpine:stable${A}
    [Raw |-> <<<<"F","R","O","M"," ","a","l","p","i","n","e",":","s","t","a","b","l","e","$","{","A","}">>>>,
     Err |-> FALSE,
     Value |-> <<"F","R","O","M">>,
     Original |-> <<"F","R","O","M"," ","a","l","p","i","n","e",":","s","t","a","b","l","e","$","{","A","}">>,
     Flags |-> <<>>,
     HasNext |-> TRUE,
     Next |-> <<[Value |-> <<"a","l","p","i","n","e",":","s","t","a","b","l","e","$","{","A","}">>, Flags |-> <<>>]>>,
     Attributes |-> {}],
    \* 152:  FROM ${A}/img
    [Raw |-> <<<<"F","R","O","M"," ","$","{","A","}","/","i","m","g">>>>,
     Err |-> FALSE,
     Value |-> <<"F","R","O","M">>,
     Original |-> <<"F","R","O","M"," ","$","{","A","}","/","i","m","g">>,
     Flags |-> <<>>,
     HasNext |-> TRUE,
     Next |-> <<[Value |-> <<"$","{","A","}","/","i","m","g">>, Flags |-> <<>>]>>,
     Attributes |-> {}],
    \* 153:  FROM img${A}:${A}
    [Raw |-> <<<<"F","R","O","M"," ","i","m","g","$","{","A","}",":","$","{","A","}">>>>,
     Err |-> FALSE,
     Value |-> <<"F","R","O","M">>,
     Original |-> <<"F","R","O","M"," ","i","m","g","$","{","A","}",":","$","{","A","}">>,
     Flags |-> <<>>,
     HasNext |-> TRUE,
     Next |-> <<[Value |-> <<"i","m","g","$","{","A","}",":","$","{","A","}">>, Flags |-> <<>>]>>,
     Attributes |-> {}],
    \* 154:  FROM ${A}/img:${B:-1}
    [Raw |-> <<<<"F","R","O","M"," ","$","{","A","}","/","i","m","g",":","$","{","B",":","-","1","}">>>>,
     Err |-> FALSE,
     Value |-> <<"F","R","O","M">>,
     Original |-> <<"F","R","O","M"," ","$","{","A","}","/","i","m","g",":","$","{","B",":","-","1","}">>,
     Flags |-> <<>>,
     HasNext |-> TRUE,
     Next |-> <<[Value |-> <<"$","{","A","}","/","i","m","g",":","$","{","B",":","-","1","}">>, Flags |-> <<>>]>>,
     Attributes |-> {}],
    \* 155:  FROM alpine:${A:-3}
    [Raw |-> <<<<"F","R","O","M"," ","a","l","p","i","n","e",":","$","{","A",":","-","3","}">>>>,
     Err |-> FALSE,
     Value |-> <<"F","R","O","M">>,
     Original |-> <<"F","R","O","M"," ","a","l","p","i","n","e",":","$","{","A",":","-","3","}">>,
     Flags |-> <<>>,
     HasNext |-> TRUE,
     Next |-> <<[Value |-> <<"a","l","p","i","n","e",":","$","{","A",":","-","3","}">>, Flags |-> <<>>]>>,
     Attributes |-> {}],
    \* 156:  FROM reg/$A
    [Raw |-> <<<<"F","R","O","M"," ","r","e","g","/","$","A">>>>,
     Err |-> FALSE,
     Value |-> <<"F","R","O","M">>,
     Original |-> <<"F","R","O","M"," ","r","e","g","/","$","A">>,
     Flags |-> <<>>,
     HasNext |-> TRUE,
     Next |-> <<[Value |-> <<"r","e","g","/","$","A">>, Flags |-> <<>>]>>,
     Attributes |-> {}],
    \* 157:  FROM alpine:$B
    [Raw |-> <<<<"F","R","O","M"," ","a","l","p","i","n","e",":","$","B">>>>,
     Err |-> FALSE,
     Value |-> <<"F","R","O","M">>,
     Original |-> <<"F","R","O","M"," ","a","l","p","i","n","e",":","$","B">>,
     Flags |-> <<>>,
     HasNext |-> TRUE,
     Next |-> <<[Value |-> <<"a","l","p","i","n","e",":","$","B">>, Flags |-> <<>>]>>,
     Attributes |-> {}],
    \* 158:  ARG Z
    [Raw |-> <<<<"A","R","G"," ","Z">>>>,
     Err |-> FALSE,
     Value |-> <<"A","R","G">>,
     Original |-> <<"A","R","G"," ","Z">>,
     Flags |-> <<>>,
     HasNext |-> TRUE,
     Next |-> <<[Value |-> <<"Z">>, Flags |-> <<>>]>>,
     Attributes |-> {}],
    \* 159:  CMD echo $Z
    [Raw |-> <<<<"C","M","D"," ","e","c","h","o"," ","$","Z">>>>,
     Err |-> FALSE,
     Value |-> <<"C","M","D">>,
     Original |-> <<"C","M","D"," ","e","c","h","o"," ","$","Z">>,
     Flags |-> <<>>,
     HasNext |-> TRUE,
     Next |-> <<[Value |-> <<"e","c","h","o"," ","$","Z">>, Flags |-> <<>>]>>,
     Attributes |-> {}],
    \* 160:  RUN [ -n "$Z" ] && echo
    [Raw |-> <<<<"R","U","N"," ","["," ","-","n"," ","\"","$","Z","\""," ","]"," ","&","&"," ","e","c","h","o">>>>,
     Err |-> FALSE,
     Value |-> <<"R","U","N">>,
     Original |-> <<"R","U","N"," ","["," ","-","n"," ","\"","$","Z","\""," ","]"," ","&","&"," ","e","c","h","o">>,
     Flags |-> <<>>,
     HasNext |-> TRUE,
     Next |-> <<[Value |-> <<"["," ","-","n"," ","\"","$","Z","\""," ","]"," ","&","&"," ","e","c","h","o">>, Flags |-> <<>>]>>,
     Attributes |-> {}],
    \* 161:  ENTRYPOINT ["$Z", "$TARGETOS"]
    [Raw |-> <<<<"E","N","T","R","Y","P","O","I","N","T"," ","[","\"","$","Z","\"",","," ","\"","$","T","A","R","G","E","T","O","S","\"","]">>>>,
     Err |-> FALSE,
     Value |-> <<"E","N","T","R","Y","P","O","I","N","T">>,
     Original |-> <<"E","N","T","R","Y","P","O","I","N","T"," ","[","\"","$","Z","\"",","," ","\"","$","T","A","R","G","E","T","O","S","\"","]">>,
     Flags |-> <<>>,
     HasNext |-> TRUE,
     Next |-> <<[Value |-> <<"$","Z">>, Flags |-> <<>>], [Value |-> <<"$","T","A","R","G","E","T","O","S">>, Flags |-> <<>>]>>,
     Attributes |-> {"json"}],
    \* 162:  RUN ["echo", "$Y"]
    [Raw |-> <<<<"R","U","N"," ","[","\"","e","c","h","o","\"",","," ","\"","$","Y","\"","]">>>>,
     Err |-> FALSE,
     Value |-> <<"R","U","N">>,
     Original |-> <<"R","U","N"," ","[","\"","e","c","h","o","\"",","," ","\"","$","Y","\"","]">>,
     Flags |-> <<>>,
     HasNext |-> TRUE,
     Next |-> <<[Value |-> <<"e","c","h","o">>, Flags |-> <<>>], [Value |-> <<"$","Y">>, Flags |-> <<>>]>>,
     Attributes |-> {"json"}],
    \* 163:  EXPOSE 0
    [Raw |-> <<<<"E","X","P","O","S","E"," ","0">>>>,
     Err |-> FALSE,
     Value |-> <<"E","X","P","O","S","E">>,
     Original |-> <<"E","X","P","O","S","E"," ","0">>,
     Flags |-> <<>>,
     HasNext |-> TRUE,
     Next |-> <<[Value |-> <<"0">>, Flags |-> <<>>]>>,
     Attributes |-> {}],
    \* 164:  EXPOSE 65536/udp
    [Raw |-> <<<<"E","X","P","O","S","E"," ","6","5","5","3","6","/","u","d","p">>>>,
     Err |-> FALSE,
     Value |-> <<"E","X","P","O","S","E">>,
     Original |-> <<"E","X","P","O","S","E"," ","6","5","5","3","6","/","u","d","p">>,
     Flags |-> <<>>,
     HasNext |-> TRUE,
     Next |-> <<[Value |-> <<"6","5","5","3","6","/","u","d","p">>, Flags |-> <<>>]>>,
     Attributes |-> {}],
    \* 165:  EXPOSE 80/TCP 70000
    [Raw |-> <<<<"E","X","P","O","S","E"," ","8","0","/","T","C","P"," ","7","0","0","0","0">>>>,
     Err |-> FALSE,
     Value |-> <<"E","X","P","O","S","E">>,
     Original |-> <<"E","X","P","O","S","E"," ","8","0","/","T","C","P"," ","7","0","0","0","0">>,
     Flags |-> <<>>,
     HasNext |-> TRUE,
     Next |-> <<[Value |-> <<"8","0","/","T","C","P">>, Flags |-> <<>>], [Value |-> <<"7","0","0","0","0">>, Flags |-> <<>>]>>,
     Attributes |-> {}]
    >>

CoreIdx == 1..13
StageIdx == 14..17
MultiIdx == {1, 6, 129, 71, 118}
BuildIdx == {130, 131}
PlatformIdx == {132, 133, 134, 135, 11, 137, 138, 139}
VarsIdx == {1, 140, 141, 142, 143, 144, 145}
ArgFromIdx == {140, 149, 1, 146, 147, 148}
DefaultArgIdx == {140, 149, 150, 151, 152, 153, 154, 155, 156, 157}
CasingIdx == {1, 6, 129, 9, 10}
ShellIdx == {1, 76, 6, 65, 74, 63, 129}
ExecIdx == {1, 158, 7, 159, 160, 161, 162}

SeqsUpTo(S, n) == UNION {[1..m -> S] : m \in 0..n}

\* Number of physical lines of the instructions before the k-th one.
RECURSIVE LinesBefore(_, _)
LinesBefore(df, k) ==
    IF k <= 1 THEN 0 ELSE LinesBefore(df, k - 1) + Len(Catalog[df[k - 1]].Raw)

\* result.AST.Children: the catalogue nodes with their line ranges.
Children(df) ==
    [k \in 1..Len(df) |->
        LET e == Catalog[df[k]]
            start == 1 + LinesBefore(df, k)
        IN  [Value |-> e.Value, Original |-> e.Original, Flags |-> e.Flags,
             HasNext |-> e.HasNext, Next |-> e.Next, Attributes |-> e.Attributes,
             StartLine |-> start, EndLine |-> start + Len(e.Raw) - 1]]

\* strings.Split(dockerfileContent, "\n").
ContentLines(df) == Flatten([k \in 1..Len(df) |-> Catalog[df[k]].Raw])

\* parser.Parse fails on a file without instructions and on a rejected line.
ParseFails(df) == df = <<>> \/ \E k \in 1..Len(df) : Catalog[df[k]].Err

\* A documentation URL is a tuple of fragments; UrlContains is
\* strings.Contains for a needle that is one of the fragments.
UrlContains(url, fragment) == \E k \in 1..Len(url) : url[k] = fragment

EmptyContinuationUrl ==
    <<"https://docs.docker.com/go/dockerfile/rule/", "no-empty-continuation", "/">>

\* An instruction has an empty continuation line when an empty physical
\* line follows a line that ends in a backslash.
HasEmptyContinuationLine(raw) ==
    \E k \in 2..Len(raw) : TrimSpace(raw[k]) = <<>>

\* The warnings the parser itself raises: one per instruction with an empty
\* continuation line, located on that instruction.
RECURSIVE LexerWarnings(_, _)
LexerWarnings(ast, df) ==
    IF df = <<>> THEN <<>>
    ELSE (IF HasEmptyContinuationLine(Catalog[Head(df)].Raw)
          THEN <<[Short |-> <<"Empty continuation line found in: %s", Head(ast).Original>>,
                  URL |-> EmptyContinuationUrl,
                  HasLocation |-> TRUE,
                  StartLine |-> Head(ast).StartLine, EndLine |-> Head(ast).EndLine]>>
          ELSE <<>>)
         \o LexerWarnings(Tail(ast), Tail(df))

\* Other parser warnings, with and without a Location.
WarningCatalog == <<
    [Short |-> <<"parser warning">>,
     URL |-> <<"https://docs.docker.com/go/dockerfile/rule/", "other-rule", "/">>,
     HasLocation |-> TRUE, StartLine |-> 1, EndLine |-> 1],
    [Short |-> <<"parser warning without location">>,
     URL |-> <<>>,
     HasLocation |-> FALSE, StartLine |-> 0, EndLine |-> 0]
    >>

\* result.Warnings.
Warnings(df, extra) ==
    LexerWarnings(Children(df), df) \o [k \in 1..Len(extra) |-> WarningCatalog[extra[k]]]

---------------------------------------------------------------------------
(* ParseDockerfile: the conversion of parser warnings.                     *)

RECURSIVE convertWarnings(_)
convertWarnings(ws) ==
    IF ws = <<>> THEN <<>>
    ELSE LET warning == Head(ws)
             startLine == IF warning.HasLocation THEN warning.StartLine ELSE 0
             endLine == IF warning.HasLocation THEN warning.EndLine ELSE 0
         IN  (IF UrlContains(warning.URL, "no-empty-continuation") THEN <<>>
              ELSE <<Rule(startLine, endLine, "ParserWarning", warning.Short,
                          warning.URL, SeverityWarning)>>)
             \o convertWarnings(Tail(ws))

---------------------------------------------------------------------------
(* checkEmptyContinuations.                                                *)

EndsWithBackslash(line) == HasSuffix(TrimRight(line, {" ", "\t", "\r"}), <<"\\">>)

NoEmptyContinuationUrl ==
    <<"https://docs.docker.com/reference/build-checks/", "no-empty-continuation", "/">>

\* The loop of checkEmptyContinuations from line i on; i counts from 1, the
\* code's i from 0.
RECURSIVE emptyContinuationLoop(_, _)
emptyContinuationLoop(lines, i) ==
    IF i > Len(lines) THEN <<>>
    ELSE IF ~EndsWithBackslash(lines[i]) THEN emptyContinuationLoop(lines, i + 1)
    ELSE IF i + 1 > Len(lines) THEN emptyContinuationLoop(lines, i + 1)
    ELSE IF TrimSpace(lines[i + 1]) = <<>>
    THEN LET found == {j \in 1..i : TrimSpace(lines[j]) # <<>> /\ ~EndsWithBackslash(lines[j])}
             instructionLine ==
                 IF found = {} THEN i
                 ELSE CHOOSE j \in found : \A h \in found : h <= j
         IN  <<Rule(instructionLine, i + 1, "NoEmptyContinuation",
                    <<"Empty continuation line found. Empty lines following a backslash continuation are deprecated and will cause errors in future Docker versions.">>,
                    NoEmptyContinuationUrl, SeverityWarning)>>
             \o emptyContinuationLoop(lines, i + 2)
    ELSE emptyContinuationLoop(lines, i + 1)

checkEmptyContinuations(lines) == emptyContinuationLoop(lines, 1)

---------------------------------------------------------------------------
(* Helpers shared by the passes.                                           *)

\* The rules of a loop over a sequence, in the order of the loop.
ConcatMap(s, F(_)) == Flatten([k \in 1..Len(s) |-> F(s[k])])

Min(S) == CHOOSE k \in S : \A j \in S : k <= j

IsInstruction(child, keyword) == ToUpper(child.Value) = keyword

\* extractFromComponents.
extractFromComponents(node) ==
    LET flagHits == {k \in 1..Len(node.Flags) :
                        HasPrefix(node.Flags[k], <<"-","-","p","l","a","t","f","o","r","m","=">>)}
        platformFlag ==
            IF flagHits = {} THEN <<>>
            ELSE TrimPrefix(node.Flags[Min(flagHits)], <<"-","-","p","l","a","t","f","o","r","m","=">>)
    IN  IF ~node.HasNext
        THEN [imageRef |-> <<>>, stageName |-> <<>>, platformFlag |-> platformFlag]
        ELSE [imageRef |-> node.Next[1].Value,
              stageName |-> IF Len(node.Next) >= 3 /\ ToUpper(node.Next[2].Value) = <<"A","S">>
                            THEN node.Next[3].Value ELSE <<>>,
              platformFlag |-> platformFlag]

\* checkPlatformConstant.
checkPlatformConstant(platform) ==
    TrimSpace(platform) # <<>> /\ ~HasPrefix(TrimSpace(platform), <<"$">>)

---------------------------------------------------------------------------
(* checkConsistentInstructionCasing.                                       *)

isUppercase(instruction) == instruction = ToUpper(instruction)
isLowercase(instruction) == instruction = ToLower(instruction)

casingRule(child, uppercase) ==
    Rule(child.StartLine, child.EndLine, "ConsistentInstructionCasing",
         <<IF uppercase
           THEN "Instruction '%s' should be consistently cased as uppercase"
           ELSE "Instruction '%s' should be consistently cased as lowercase",
           child.Value>>,
         <<"https://docs.docker.com/reference/build-checks/", "consistent-instruction-casing", "/">>,
         SeverityWarning)

\* checkConsistentInstructionCasing with equal counts resolved to lowercase.
checkCasingTiesLowercase(ast) ==
    LET named == SelectSeq(ast, LAMBDA child : child.Value # <<>>)
        uppercaseCount == Cardinality({k \in 1..Len(named) : isUppercase(named[k].Value)})
        lowercaseCount == Cardinality({k \in 1..Len(named) :
                                          /\ ~isUppercase(named[k].Value)
                                          /\ isLowercase(named[k].Value)})
        preferUppercase == uppercaseCount > lowercaseCount
        Mixed(child) ==
            IF ~isUppercase(child.Value) /\ ~isLowercase(child.Value)
            THEN <<casingRule(child, ~(lowercaseCount > 0))>> ELSE <<>>
        Minority(child) ==
            IF preferUppercase /\ ~isUppercase(child.Value) THEN <<casingRule(child, TRUE)>>
            ELSE IF ~preferUppercase /\ ~isLowercase(child.Value) THEN <<casingRule(child, FALSE)>>
            ELSE <<>>
    IN  IF uppercaseCount = 0 \/ lowercaseCount = 0
        THEN ConcatMap(named, Mixed)
        ELSE ConcatMap(named, Minority)

checkConsistentInstructionCasing(ast) ==
    LET named == SelectSeq(ast, LAMBDA child : child.Value # <<>>)
        uppercaseCount == Cardinality({k \in 1..Len(named) : isUppercase(named[k].Value)})
        lowercaseCount == Cardinality({k \in 1..Len(named) :
                                          /\ ~isUppercase(named[k].Value)
                                          /\ isLowercase(named[k].Value)})
        preferUppercase == uppercaseCount >= lowercaseCount
        Mixed(child) ==
            IF ~isUppercase(child.Value) /\ ~isLowercase(child.Value)
            THEN <<casingRule(child, ~(lowercaseCount > 0))>> ELSE <<>>
        Minority(child) ==
            IF preferUppercase /\ ~isUppercase(child.Value) THEN <<casingRule(child, TRUE)>>
            ELSE IF ~preferUppercase /\ ~isLowercase(child.Value) THEN <<casingRule(child, FALSE)>>
            ELSE <<>>
    IN  IF uppercaseCount = 0 \/ lowercaseCount = 0
        THEN ConcatMap(named, Mixed)
        ELSE ConcatMap(named, Minority)

---------------------------------------------------------------------------
(* checkDuplicateStageNames.                                               *)

\* The FROM instructions that declare a stage name, in file order.
NamedStages(ast) ==
    SelectSeq(ast, LAMBDA child :
        IsInstruction(child, <<"F","R","O","M">>) /\ extractFromComponents(child).stageName # <<>>)

\* The keys of the map stageNames.
StageKeys(ast) ==
    {ToLower(extractFromComponents(NamedStages(ast)[k]).stageName) : k \in 1..Len(NamedStages(ast))}

\* The orders in which a range over the map stageNames can visit its keys.
KeyOrders(ast) ==
    {order \in [1..Cardinality(StageKeys(ast)) -> StageKeys(ast)] :
        \A i, j \in DOMAIN order : order[i] = order[j] => i = j}

duplicateStageRule(child) ==
    Rule(child.StartLine, child.EndLine, "DuplicateStageName",
         <<"Duplicate stage name '%s', stage names should be unique",
           extractFromComponents(child).stageName>>,
         <<"https://docs.docker.com/reference/build-checks/", "duplicate-stage-name", "/">>,
         SeverityError)

\* checkDuplicateStageNames with the stages grouped by the name as written
\* instead of the lower-cased name.
checkDuplicateStageNamesAsWritten(ast, order) ==
    LET Group(key) ==
            LET stages == SelectSeq(NamedStages(ast), LAMBDA child :
                              extractFromComponents(child).stageName = key)
            IN  IF Len(stages) > 1 THEN ConcatMap(stages, LAMBDA child : <<duplicateStageRule(child)>>)
                ELSE <<>>
    IN  ConcatMap(order, Group)

\* The second loop of checkDuplicateStageNames, visiting the keys in order.
checkDuplicateStageNames(ast, order) ==
    LET Group(key) ==
            LET stages == SelectSeq(NamedStages(ast), LAMBDA child :
                              ToLower(extractFromComponents(child).stageName) = key)
            IN  IF Len(stages) > 1 THEN ConcatMap(stages, LAMBDA child : <<duplicateStageRule(child)>>)
                ELSE <<>>
    IN  ConcatMap(order, Group)

---------------------------------------------------------------------------
(* checkPlatformFlagConstDisallowed.                                       *)

\* extractStagePrefix.
extractStagePrefix(stageName) ==
    LET seps == {k \in 1..Len(stageName) : stageName[k] \in {"_", "-"}}
    IN  IF seps = {} THEN stageName ELSE SubSeq(stageName, 1, Min(seps) - 1)

FromNodes(ast) == SelectSeq(ast, LAMBDA child : IsInstruction(child, <<"F","R","O","M">>))

\* The keys of the map referencedStages after the second loop.
referencedStages(ast) ==
    LET refs == {ToLower(extractFromComponents(FromNodes(ast)[k]).imageRef) :
                    k \in {h \in 1..Len(FromNodes(ast)) :
                              extractFromComponents(FromNodes(ast)[h]).imageRef # <<>>}}
    IN  {imageRefLower \in refs : imageRefLower \in StageKeys(ast)}
        \cup {stageName \in StageKeys(ast) :
                \E imageRefLower \in refs :
                    /\ imageRefLower \notin StageKeys(ast)
                    /\ HasPrefix(imageRefLower, extractStagePrefix(stageName))}

checkPlatformFlagConstDisallowed(ast) ==
    LET Check(child) ==
            LET c == extractFromComponents(child)
            IN  IF c.platformFlag = <<>> \/ ~checkPlatformConstant(c.platformFlag) THEN <<>>
                ELSE IF c.stageName # <<>> /\ ToLower(c.stageName) \in referencedStages(ast) THEN <<>>
                ELSE <<Rule(child.StartLine, child.EndLine, "FromPlatformFlagConstDisallowed",
                            <<"FROM --platform should not use a constant value '%s'. Use a variable like $BUILDPLATFORM or $TARGETPLATFORM, or specify --platform at build time instead.",
                              c.platformFlag>>,
                            <<"https://docs.docker.com/reference/build-checks/", "from-platform-flag-const-disallowed", "/">>,
                            SeverityWarning)>>
    IN  ConcatMap(FromNodes(ast), Check)

---------------------------------------------------------------------------
(* checkJSONArgsRecommended.                                               *)

\* checkJSONArgsRecommended with only the SHELL instructions above the command
\* taken into account.
checkJSONArgsShellBefore(ast) ==
    LET Check(child) ==
            LET hasShellInstruction ==
                    \E k \in 1..Len(ast) :
                        /\ IsInstruction(ast[k], <<"S","H","E","L","L">>)
                        /\ ast[k].StartLine < child.StartLine
                instruction == ToUpper(child.Value)
                trimmedOriginal == TrimSpace(TrimPrefix(child.Original, child.Value))
            IN  IF instruction # <<"C","M","D">>
                   /\ instruction # <<"E","N","T","R","Y","P","O","I","N","T">> THEN <<>>
                ELSE IF trimmedOriginal = <<>> THEN <<>>
                ELSE IF ~HasPrefix(trimmedOriginal, <<"[">>) /\ ~hasShellInstruction
                THEN <<Rule(child.StartLine, child.EndLine, "JSONArgsRecommended",
                            <<"JSON arguments recommended for %s to prevent unintended behavior related to OS signals",
                              instruction>>,
                            <<"https://docs.docker.com/reference/build-checks/", "json-args-recommended", "/">>,
                            SeverityWarning)>>
                ELSE <<>>
    IN  ConcatMap(ast, Check)

checkJSONArgsRecommended(ast) ==
    LET hasShellInstruction ==
            \E k \in 1..Len(ast) : IsInstruction(ast[k], <<"S","H","E","L","L">>)
        Check(child) ==
            LET instruction == ToUpper(child.Value)
                trimmedOriginal == TrimSpace(TrimPrefix(child.Original, child.Value))
            IN  IF instruction # <<"C","M","D">>
                   /\ instruction # <<"E","N","T","R","Y","P","O","I","N","T">> THEN <<>>
                ELSE IF trimmedOriginal = <<>> THEN <<>>
                ELSE IF ~HasPrefix(trimmedOriginal, <<"[">>) /\ ~hasShellInstruction
                THEN <<Rule(child.StartLine, child.EndLine, "JSONArgsRecommended",
                            <<"JSON arguments recommended for %s to prevent unintended behavior related to OS signals",
                              instruction>>,
                            <<"https://docs.docker.com/reference/build-checks/", "json-args-recommended", "/">>,
                            SeverityWarning)>>
                ELSE <<>>
    IN  ConcatMap(ast, Check)

---------------------------------------------------------------------------
(* extractVariableReferences and extractArgNames.                          *)

IdentStart == Letters \cup {"_"}
IdentChar == IdentStart \cup Digits

\* Length of the longest run of [a-zA-Z0-9_] at position p.
RECURSIVE RunLen(_, _)
RunLen(s, p) == IF p <= Len(s) /\ s[p] \in IdentChar THEN 1 + RunLen(s, p + 1) ELSE 0

\* Length of the match of [a-zA-Z_][a-zA-Z0-9_]* at position p, 0 for none.
IdentLen(s, p) == IF p <= Len(s) /\ s[p] \in IdentStart THEN RunLen(s, p) ELSE 0

\* The submatches of \$\{([a-zA-Z_][a-zA-Z0-9_]*)\} found from position p on.
RECURSIVE BraceMatches(_, _)
BraceMatches(s, p) ==
    IF p > Len(s) THEN <<>>
    ELSE LET n == IF s[p] = "$" /\ p + 1 <= Len(s) /\ s[p + 1] = "{"
                  THEN IdentLen(s, p + 2) ELSE 0
         IN  IF n > 0 /\ p + 2 + n <= Len(s) /\ s[p + 2 + n] = "}"
             THEN <<SubSeq(s, p + 2, p + 1 + n)>> \o BraceMatches(s, p + 3 + n)
             ELSE BraceMatches(s, p + 1)

\* The submatches of \$([a-zA-Z_][a-zA-Z0-9_]*) found from position p on.
RECURSIVE DollarMatches(_, _)
DollarMatches(s, p) ==
    IF p > Len(s) THEN <<>>
    ELSE LET n == IF s[p] = "$" THEN IdentLen(s, p + 1) ELSE 0
         IN  IF n > 0
             THEN <<SubSeq(s, p + 1, p + n)>> \o DollarMatches(s, p + 1 + n)
             ELSE DollarMatches(s, p + 1)

\* The first occurrences of the elements of a sequence, in order.
RECURSIVE Dedup(_)
Dedup(s) ==
    IF s = <<>> THEN <<>>
    ELSE LET front == Dedup(SubSeq(s, 1, Len(s) - 1))
         IN  IF \E k \in 1..Len(front) : front[k] = s[Len(s)] THEN front
             ELSE Append(front, s[Len(s)])

extractVariableReferences(text) == Dedup(BraceMatches(text, 1) \o DollarMatches(text, 1))

\* extractArgNames, as the set of the names.
extractArgNames(node) ==
    {IF Index(node.Next[k].Value, <<"=">>) # -1
     THEN SubSeq(node.Next[k].Value, 1, Index(node.Next[k].Value, <<"=">>))
     ELSE node.Next[k].Value : k \in 1..Len(node.Next)}

predefinedArgs == {
    <<"T","A","R","G","E","T","P","L","A","T","F","O","R","M">>,
    <<"T","A","R","G","E","T","O","S">>,
    <<"T","A","R","G","E","T","A","R","C","H">>,
    <<"T","A","R","G","E","T","V","A","R","I","A","N","T">>,
    <<"B","U","I","L","D","P","L","A","T","F","O","R","M">>,
    <<"B","U","I","L","D","O","S">>,
    <<"B","U","I","L","D","A","R","C","H">>,
    <<"B","U","I","L","D","V","A","R","I","A","N","T">>,
    <<"H","T","T","P","_","P","R","O","X","Y">>,
    <<"h","t","t","p","_","p","r","o","x","y">>,
    <<"H","T","T","P","S","_","P","R","O","X","Y">>,
    <<"h","t","t","p","s","_","p","r","o","x","y">>,
    <<"F","T","P","_","P","R","O","X","Y">>,
    <<"f","t","p","_","p","r","o","x","y">>,
    <<"N","O","_","P","R","O","X","Y">>,
    <<"n","o","_","p","r","o","x","y">>,
    <<"A","L","L","_","P","R","O","X","Y">>,
    <<"a","l","l","_","p","r","o","x","y">>}

\* globalArgs without the break at the first FROM: the ARG names declared
\* anywhere.
globalArgsAnywhere(ast) ==
    UNION {extractArgNames(ast[k]) :
              k \in {h \in 1..Len(ast) : IsInstruction(ast[h], <<"A","R","G">>)}}

\* The ARG names declared before the first FROM.
globalArgs(ast) ==
    LET froms == {k \in 1..Len(ast) : IsInstruction(ast[k], <<"F","R","O","M">>)}
        last == IF froms = {} THEN Len(ast) ELSE Min(froms) - 1
    IN  UNION {extractArgNames(ast[k]) :
                  k \in {h \in 1..last : IsInstruction(ast[h], <<"A","R","G">>)}}

---------------------------------------------------------------------------
(* checkUndefinedArgInFrom.                                                *)

checkUndefinedArgInFrom(ast) ==
    LET Check(child) ==
            LET Ref(varRef) ==
                    IF varRef \notin globalArgs(ast) /\ varRef \notin predefinedArgs
                    THEN <<Rule(child.StartLine, child.EndLine, "UndefinedArgInFrom",
                                <<"FROM argument '%s' is not declared", varRef>>,
                                <<"https://docs.docker.com/reference/build-checks/", "undefined-arg-in-from", "/">>,
                                SeverityError)>>
                    ELSE <<>>
            IN  ConcatMap(extractVariableReferences(extractFromComponents(child).imageRef), Ref)
    IN  ConcatMap(FromNodes(ast), Check)

---------------------------------------------------------------------------
(* checkUndefinedVar.                                                      *)

\* The Rule literal of checkUndefinedVar; severity is SeverityUnset where
\* the literal has no Severity field.
undefinedVarRule(child, varName, severity) ==
    Rule(child.StartLine, child.EndLine, "UndefinedVar",
         <<"Usage of undefined variable '$%s'", varName>>,
         <<"https://docs.docker.com/reference/build-checks/", "undefined-var", "/">>,
         severity)

\* One loop over extractVariableReferences(text).
undefinedRefs(child, text, stageVars, severity) ==
    ConcatMap(extractVariableReferences(text),
              LAMBDA varName : IF varName \notin stageVars /\ varName \notin predefinedArgs
                               THEN <<undefinedVarRule(child, varName, severity)>>
                               ELSE <<>>)

\* extractEnvNames from the i-th argument node on, as the set of the names.
RECURSIVE envNamesFrom(_, _)
envNamesFrom(next, i) ==
    IF i > Len(next) THEN {}
    ELSE IF Contains(next[i].Value, <<"=">>)
         THEN {SplitN2(next[i].Value, "=")[1]} \cup envNamesFrom(next, i + 1)
         ELSE {next[i].Value}
              \cup envNamesFrom(next, IF i + 1 <= Len(next) THEN i + 2 ELSE i + 1)
extractEnvNames(node) == envNamesFrom(node.Next, 1)

\* The loop over the argument nodes of an ENV instruction.
RECURSIVE envValueLoop(_, _, _)
envValueLoop(child, i, stageVars) ==
    LET next == child.Next IN
    IF i > Len(next) THEN <<>>
    ELSE LET keyValue == Contains(next[i].Value, <<"=">>)
             valueToCheck ==
                 IF keyValue THEN SplitN2(next[i].Value, "=")[2]
                 ELSE IF i + 1 <= Len(next) THEN next[i + 1].Value ELSE <<>>
             step == IF ~keyValue /\ i + 1 <= Len(next) THEN 2 ELSE 1
         IN  (IF valueToCheck # <<>>
              THEN undefinedRefs(child, valueToCheck, stageVars, SeverityUnset) ELSE <<>>)
             \o envValueLoop(child, i + step, stageVars)

\* The rules of one argument node of an instruction other than FROM, ARG,
\* ENV, RUN, CMD and ENTRYPOINT.
argumentRefs(child, current, stageVars) ==
    undefinedRefs(child, current.Value, stageVars, SeverityError)
    \o ConcatMap(current.Flags,
                 LAMBDA flag : undefinedRefs(child, flag, stageVars, SeverityUnset))

\* checkUndefinedVar with the exec form told from the first character of the
\* argument text instead of the parser's json attribute.
RECURSIVE undefinedVarLoopByBracket(_, _, _, _)
undefinedVarLoopByBracket(ast, k, inStage, stageVars) ==
    IF k > Len(ast) THEN <<>>
    ELSE LET child == ast[k]
             instruction == ToUpper(child.Value)
         IN
         IF instruction = <<"F","R","O","M">>
         THEN LET scope == globalArgs(ast) \cup predefinedArgs
                  c == extractFromComponents(child)
              IN  undefinedRefs(child, c.imageRef, scope, SeverityError)
                  \o (IF c.platformFlag # <<>>
                      THEN undefinedRefs(child, c.platformFlag, scope, SeverityUnset)
                      ELSE <<>>)
                  \o undefinedVarLoopByBracket(ast, k + 1, TRUE, scope)
         ELSE IF ~inStage THEN undefinedVarLoopByBracket(ast, k + 1, inStage, stageVars)
         ELSE IF instruction = <<"A","R","G">>
         THEN LET scope == stageVars \cup extractArgNames(child)
                  argValue == child.Next[1].Value
              IN  (IF child.HasNext /\ Contains(argValue, <<"=">>)
                   THEN undefinedRefs(child, SplitN2(argValue, "=")[2], scope, SeverityUnset)
                   ELSE <<>>)
                  \o undefinedVarLoopByBracket(ast, k + 1, inStage, scope)
         ELSE IF instruction = <<"E","N","V">>
         THEN LET scope == stageVars \cup extractEnvNames(child)
              IN  envValueLoop(child, 1, scope)
                  \o undefinedVarLoopByBracket(ast, k + 1, inStage, scope)
         ELSE IF instruction \in {<<"R","U","N">>, <<"C","M","D">>,
                                  <<"E","N","T","R","Y","P","O","I","N","T">>}
         THEN (IF HasPrefix(TrimSpace(TrimPrefix(child.Original, child.Value)), <<"[">>)
               THEN ConcatMap(child.Next, LAMBDA current :
                        undefinedRefs(child, current.Value, stageVars, SeverityUnset))
               ELSE <<>>)
              \o undefinedVarLoopByBracket(ast, k + 1, inStage, stageVars)
         ELSE ConcatMap(child.Next, LAMBDA current : argumentRefs(child, current, stageVars))
              \o ConcatMap(child.Flags, LAMBDA flag :
                     undefinedRefs(child, flag, stageVars, SeverityError))
              \o undefinedVarLoopByBracket(ast, k + 1, inStage, stageVars)

checkUndefinedVarByBracket(ast) == undefinedVarLoopByBracket(ast, 1, FALSE, {})

\* The main loop of checkUndefinedVar from child k on.
RECURSIVE undefinedVarLoop(_, _, _, _)
undefinedVarLoop(ast, k, inStage, stageVars) ==
    IF k > Len(ast) THEN <<>>
    ELSE LET child == ast[k]
             instruction == ToUpper(child.Value)
         IN
         IF instruction = <<"F","R","O","M">>
         THEN LET scope == globalArgs(ast) \cup predefinedArgs
                  c == extractFromComponents(child)
              IN  undefinedRefs(child, c.imageRef, scope, SeverityError)
                  \o (IF c.platformFlag # <<>>
                      THEN undefinedRefs(child, c.platformFlag, scope, SeverityUnset)
                      ELSE <<>>)
                  \o undefinedVarLoop(ast, k + 1, TRUE, scope)
         ELSE IF ~inStage THEN undefinedVarLoop(ast, k + 1, inStage, stageVars)
         ELSE IF instruction = <<"A","R","G">>
         THEN LET scope == stageVars \cup extractArgNames(child)
                  argValue == child.Next[1].Value
              IN  (IF child.HasNext /\ Contains(argValue, <<"=">>)
                   THEN undefinedRefs(child, SplitN2(argValue, "=")[2], scope, SeverityUnset)
                   ELSE <<>>)
                  \o undefinedVarLoop(ast, k + 1, inStage, scope)
         ELSE IF instruction = <<"E","N","V">>
         THEN LET scope == stageVars \cup extractEnvNames(child)
              IN  envValueLoop(child, 1, scope)
                  \o undefinedVarLoop(ast, k + 1, inStage, scope)
         ELSE IF instruction \in {<<"R","U","N">>, <<"C","M","D">>,
                                  <<"E","N","T","R","Y","P","O","I","N","T">>}
         THEN (IF "json" \in child.Attributes
               THEN ConcatMap(child.Next, LAMBDA current :
                        undefinedRefs(child, current.Value, stageVars, SeverityUnset))
               ELSE <<>>)
              \o undefinedVarLoop(ast, k + 1, inStage, stageVars)
         ELSE ConcatMap(child.Next, LAMBDA current : argumentRefs(child, current, stageVars))
              \o ConcatMap(child.Flags, LAMBDA flag :
                     undefinedRefs(child, flag, stageVars, SeverityError))
              \o undefinedVarLoop(ast, k + 1, inStage, stageVars)

checkUndefinedVar(ast) == undefinedVarLoop(ast, 1, FALSE, {})

---------------------------------------------------------------------------
(* checkMultipleInstructionsDisallowed.                                    *)

restrictedInstructions ==
    {<<"C","M","D">>, <<"H","E","A","L","T","H","C","H","E","C","K">>,
     <<"E","N","T","R","Y","P","O","I","N","T">>}

\* The loop from child k on; seen is the set of keys of stageInstructions.
RECURSIVE multipleInstructionsLoop(_, _, _, _)
multipleInstructionsLoop(ast, k, inStage, seen) ==
    IF k > Len(ast) THEN <<>>
    ELSE LET child == ast[k]
             instruction == ToUpper(child.Value)
         IN
         IF instruction = <<"F","R","O","M">> THEN multipleInstructionsLoop(ast, k + 1, TRUE, {})
         ELSE IF ~inStage THEN multipleInstructionsLoop(ast, k + 1, inStage, seen)
         ELSE IF instruction \in restrictedInstructions
         THEN IF instruction \in seen
              THEN <<Rule(child.StartLine, child.EndLine, "MultipleInstructionsDisallowed",
                          <<"Multiple %s instructions should not be used in the same stage; only the last one takes effect",
                            instruction>>,
                          <<"https://docs.docker.com/reference/build-checks/", "multiple-instructions-disallowed", "/">>,
                          SeverityError)>>
                   \o multipleInstructionsLoop(ast, k + 1, inStage, seen)
              ELSE multipleInstructionsLoop(ast, k + 1, inStage, seen \cup {instruction})
         ELSE multipleInstructionsLoop(ast, k + 1, inStage, seen)

\* checkMultipleInstructionsDisallowed with inStage set from the start.
checkMultipleInstructionsFromStart(ast) == multipleInstructionsLoop(ast, 1, TRUE, {})
checkMultipleInstructionsDisallowed(ast) == multipleInstructionsLoop(ast, 1, FALSE, {})

---------------------------------------------------------------------------
(* checkSecretsInArgOrEnv.                                                 *)

secretTokens == {
    <<"a","p","i","k","e","y">>,
    <<"a","u","t","h">>,
    <<"c","r","e","d","e","n","t","i","a","l">>,
    <<"c","r","e","d","e","n","t","i","a","l","s">>,
    <<"k","e","y">>,
    <<"p","a","s","s","w","o","r","d">>,
    <<"p","w","o","r","d">>,
    <<"p","a","s","s","w","d">>,
    <<"s","e","c","r","e","t">>,
    <<"t","o","k","e","n">>}
allowTokens == {<<"p","u","b","l","i","c">>}

\* (?i)(?:_|^)(?:t1|t2|...)(?:_|$) matches somewhere in varName.
MatchesTokens(varName, tokens) ==
    \E token \in tokens :
        \E i \in 1..(Len(varName) - Len(token) + 1) :
            /\ ToLower(SubSeq(varName, i, i + Len(token) - 1)) = token
            /\ (i = 1 \/ varName[i - 1] = "_")
            /\ (i + Len(token) - 1 = Len(varName) \/ varName[i + Len(token)] = "_")

isSensitiveVariableName(varName) ==
    MatchesTokens(varName, secretTokens) /\ ~MatchesTokens(varName, allowTokens)

extractVariableNamesFromInstruction(node) ==
    ConcatMap(node.Next, LAMBDA current :
        IF Contains(current.Value, <<"=">>)
        THEN (IF SplitN2(current.Value, "=")[1] # <<>>
              THEN <<SplitN2(current.Value, "=")[1]>> ELSE <<>>)
        ELSE <<current.Value>>)

checkSecretsInArgOrEnv(ast) ==
    LET Check(child) ==
            LET instruction == ToUpper(child.Value)
                Name(varName) ==
                    IF isSensitiveVariableName(varName)
                    THEN <<Rule(child.StartLine, child.EndLine, "SecretsUsedInArgOrEnv",
                                <<"Sensitive data should not be used in %s instruction: '%s'. Consider using secret mounts instead",
                                  instruction, varName>>,
                                <<"https://docs.docker.com/reference/build-checks/", "secrets-used-in-arg-or-env", "/">>,
                                SeverityWarning)>>
                    ELSE <<>>
            IN  IF instruction = <<"A","R","G">> \/ instruction = <<"E","N","V">>
                THEN ConcatMap(extractVariableNamesFromInstruction(child), Name)
                ELSE <<>>
    IN  ConcatMap(ast, Check)

---------------------------------------------------------------------------
(* checkInvalidDefaultArgInFrom.                                           *)

\* The assignments extractArgNamesWithDefaults makes for one ARG node, in
\* order; a later assignment to the same name overrides an earlier one.
extractArgNamesWithDefaults(node) ==
    [k \in 1..Len(node.Next) |->
        IF Contains(node.Next[k].Value, <<"=">>)
        THEN [name |-> SplitN2(node.Next[k].Value, "=")[1], hasDefault |-> TRUE]
        ELSE [name |-> node.Next[k].Value, hasDefault |-> FALSE]]

\* The assignments to globalArgsWithDefaults, in order.
globalArgsWithDefaults(ast) ==
    LET froms == {k \in 1..Len(ast) : IsInstruction(ast[k], <<"F","R","O","M">>)}
        last == IF froms = {} THEN Len(ast) ELSE Min(froms) - 1
    IN  ConcatMap(SubSeq(ast, 1, last), LAMBDA child :
            IF IsInstruction(child, <<"A","R","G">>)
            THEN extractArgNamesWithDefaults(child) ELSE <<>>)

\* isGlobalArg && !hasDefault for the map the assignments build.
GlobalArgWithoutDefault(assignments, varName) ==
    LET hits == {k \in 1..Len(assignments) : assignments[k].name = varName}
    IN  hits # {} /\ ~assignments[CHOOSE k \in hits : \A j \in hits : j <= k].hasDefault

\* The loop of wouldResultInInvalidImageRef over the two patterns.
RECURSIVE invalidRefLoop(_, _, _)
invalidRefLoop(imageRef, varName, p) ==
    IF p > 2 THEN FALSE
    ELSE LET pattern == IF p = 1 THEN <<"$", "{">> \o varName \o <<"}">>
                        ELSE <<"$">> \o varName
             pos == Index(imageRef, pattern)
             fullPattern == SubSeq(imageRef, pos + 1, Len(imageRef))
             before == IF pos > 0 THEN <<imageRef[pos]>> ELSE <<>>
             endIdx == pos + Len(pattern)
             after == IF endIdx < Len(imageRef) THEN <<imageRef[endIdx + 1]>> ELSE <<>>
         IN  IF pos = -1 THEN invalidRefLoop(imageRef, varName, p + 1)
             ELSE IF Contains(pattern, <<"$", "{">> \o varName)
                     /\ (Contains(fullPattern, <<":", "-">>) \/ Contains(fullPattern, <<":", "+">>))
             THEN FALSE
             ELSE IF before = <<":">> \/ before = <<"@">> THEN TRUE
             ELSE IF pos = 0 /\ (after = <<":">> \/ after = <<"@">>) THEN TRUE
             ELSE IF pos = 0 /\ after = <<"/">> THEN TRUE
             ELSE IF before = <<"/">>
                     /\ (after = <<>> \/ after = <<"/">> \/ after = <<":">> \/ after = <<"@">>)
             THEN TRUE
             ELSE invalidRefLoop(imageRef, varName, p + 1)

wouldResultInInvalidImageRef(imageRef, varName) == invalidRefLoop(imageRef, varName, 1)

invalidDefaultArgUrl ==
    <<"https://docs.docker.com/reference/build-checks/", "invalid-default-arg-in-from", "/">>

checkInvalidDefaultArgInFrom(ast) ==
    LET assignments == globalArgsWithDefaults(ast)
        Check(child) ==
            LET c == extractFromComponents(child)
                Image(varName) ==
                    IF /\ GlobalArgWithoutDefault(assignments, varName)
                       /\ wouldResultInInvalidImageRef(c.imageRef, varName)
                    THEN <<Rule(child.StartLine, child.EndLine, "InvalidDefaultArgInFrom",
                                <<"ARG '%s' has no default value and is used in FROM instruction. Provide a default value or use parameter expansion with fallback: ${%s:-default}",
                                  varName>>,
                                invalidDefaultArgUrl, SeverityError)>>
                    ELSE <<>>
                Platform(varName) ==
                    IF GlobalArgWithoutDefault(assignments, varName)
                    THEN <<Rule(child.StartLine, child.EndLine, "InvalidDefaultArgInFrom",
                                <<"ARG '%s' has no default value and is used in FROM --platform flag. Provide a default value or use parameter expansion with fallback: ${%s:-default}",
                                  varName>>,
                                invalidDefaultArgUrl, SeverityError)>>
                    ELSE <<>>
            IN  ConcatMap(extractVariableReferences(c.imageRef), Image)
                \o (IF c.platformFlag # <<>>
                    THEN ConcatMap(extractVariableReferences(c.platformFlag), Platform)
                    ELSE <<>>)
    IN  ConcatMap(FromNodes(ast), Check)

---------------------------------------------------------------------------
(* parseFROM.                                                              *)

AllIn(s, chars) == \A k \in 1..Len(s) : s[k] \in chars

fromUrl == <<"https://docs.docker.com/reference/dockerfile/", "#from">>

\* \$\{[a-zA-Z_][a-zA-Z0-9_]*(?::-[^}]*)?\}|\$[a-zA-Z_][a-zA-Z0-9_]* matches
\* somewhere in s.
VarPatternMatches(s) ==
    \E p \in 1..Len(s) :
        /\ s[p] = "$"
        /\ \/ IdentLen(s, p + 1) > 0
           \/ /\ p + 1 <= Len(s) /\ s[p + 1] = "{"
              /\ LET n == IdentLen(s, p + 2)
                     q == p + 2 + n
                 IN  /\ n > 0
                     /\ q <= Len(s)
                     /\ \/ s[q] = "}"
                        \/ /\ q + 1 <= Len(s) /\ s[q] = ":" /\ s[q + 1] = "-"
                           /\ \E r \in (q + 2)..Len(s) : s[r] = "}"

ImageRefChars == Letters \cup Digits \cup {":", "@", ".", "/", "_", "-"}
HexChars == Digits \cup {"a", "b", "c", "d", "e", "f"}

\* ^[a-z0-9]+:[a-f0-9]+$ matches s.
DigestMatches(s) ==
    /\ Count(s, ":") = 1
    /\ LET parts == Split(s, ":")
       IN  /\ parts[1] # <<>> /\ AllIn(parts[1], LowerSet \cup Digits)
           /\ parts[2] # <<>> /\ AllIn(parts[2], HexChars)

checkImageReferenceFormat(ref) ==
    LET imageRef == TrimSpace(ref)
        atCount == Count(imageRef, "@")
        parts == Split(imageRef, "@")
    IN  IF imageRef = <<>> THEN FALSE
        ELSE IF Contains(imageRef, <<"$">>) THEN VarPatternMatches(imageRef)
        ELSE IF ~AllIn(imageRef, ImageRefChars) THEN FALSE
        ELSE IF atCount > 1 THEN FALSE
        ELSE IF atCount = 1
                /\ (Len(parts) # 2
                    \/ (~HasPrefix(parts[2], <<"s","h","a","2","5","6",":">>) /\ ~HasPrefix(parts[2], <<"s","h","a","5","1","2",":">>)))
                /\ ~DigestMatches(parts[2])
        THEN FALSE
        ELSE TRUE

checkRedundantTargetPlatform(platform) == TrimSpace(platform) = <<"$","T","A","R","G","E","T","P","L","A","T","F","O","R","M">>

validOS == {<<"l","i","n","u","x">>, <<"w","i","n","d","o","w","s">>, <<"d","a","r","w","i","n">>, <<"f","r","e","e","b","s","d">>}
validArch == {<<"a","m","d","6","4">>, <<"a","r","m","6","4">>, <<"a","r","m">>, <<"3","8","6">>, <<"p","p","c","6","4","l","e">>, <<"s","3","9","0","x">>, <<"r","i","s","c","v","6","4">>}

checkPlatformFormat(p) ==
    LET platform == TrimSpace(p)
        parts == Split(platform, "/")
    IN  IF platform = <<>> THEN FALSE
        ELSE IF HasPrefix(platform, <<"$">>) THEN TRUE
        ELSE IF Len(parts) < 1 \/ Len(parts) > 3 THEN FALSE
        ELSE IF parts[1] \notin validOS THEN FALSE
        ELSE IF Len(parts) >= 2 /\ parts[2] \notin validArch THEN FALSE
        ELSE TRUE

\* ^[a-zA-Z_][a-zA-Z0-9_.-]*$ on the trimmed name.
checkStageNameFormat(name) ==
    LET stageName == TrimSpace(name)
    IN  /\ stageName # <<>>
        /\ stageName[1] \in IdentStart
        /\ AllIn(stageName, IdentChar \cup {".", "-"})

reservedWords == {<<"s","c","r","a","t","c","h">>, <<"c","o","n","t","e","x","t">>}

checkReservedStageName(name) ==
    TrimSpace(name) # <<>> /\ ToLower(TrimSpace(name)) \in reservedWords

checkStageNameCasing(name) ==
    TrimSpace(name) = <<>> \/ TrimSpace(name) = ToLower(TrimSpace(name))

checkFromAsCasing(fromKeyword, originalLine) ==
    LET parts == Fields(originalLine)
        hits == {k \in 1..Len(parts) : ToUpper(parts[k]) = <<"A","S">>}
    IN  IF Len(parts) < 4 THEN TRUE
        ELSE IF hits = {} THEN TRUE
        ELSE (fromKeyword = ToUpper(fromKeyword)) = (parts[Min(hits)] = <<"A","S">>)

parseFROM(node) ==
    LET c == extractFromComponents(node)
        imageRef == c.imageRef
        stageName == c.stageName
        platformFlag == c.platformFlag
    IN  IF ~node.HasNext
        THEN <<invalidInstructionRule(node, <<"FROM requires at least one argument">>)>>
        ELSE IF TrimSpace(imageRef) = <<>>
        THEN <<NewErrorRule(node, "FromMissingImage",
                            <<"FROM instruction must specify an image reference">>, fromUrl)>>
        ELSE IF imageRef # <<>> /\ ~checkImageReferenceFormat(imageRef)
        THEN <<NewErrorRule(node, "FromInvalidImageReference",
                            <<"FROM instruction has invalid image reference format: '%s'", imageRef>>,
                            fromUrl)>>
        ELSE IF platformFlag # <<>> /\ ~checkPlatformFormat(platformFlag)
        THEN <<NewErrorRule(node, "FromInvalidPlatform",
                            <<"FROM instruction has invalid --platform flag format: '%s'", platformFlag>>,
                            fromUrl)>>
        ELSE IF stageName # <<>> /\ ~checkStageNameFormat(stageName)
        THEN <<NewErrorRule(node, "FromInvalidStageName",
                            <<"FROM instruction AS stage name is invalid: '%s'. Stage names must start with a letter or underscore and contain only alphanumeric characters, underscores, hyphens, and dots.", stageName>>,
                            fromUrl)>>
        ELSE IF stageName # <<>> /\ checkReservedStageName(stageName)
        THEN <<NewErrorRule(node, "ReservedStageName",
                            <<"'%s' is reserved and should not be used as a stage name", stageName>>,
                            <<"https://docs.docker.com/reference/build-checks/", "reserved-stage-name", "/">>)>>
        ELSE (IF platformFlag # <<>> /\ checkRedundantTargetPlatform(platformFlag)
              THEN <<NewWarningRule(node, "RedundantTargetPlatform",
                         <<"Setting platform to predefined $TARGETPLATFORM in FROM is redundant as this is the default behavior">>,
                         <<"https://docs.docker.com/reference/build-checks/", "redundant-target-platform", "/">>)>>
              ELSE <<>>)
             \o (IF stageName # <<>> /\ ~checkStageNameCasing(stageName)
                 THEN <<NewWarningRule(node, "StageNameCasing",
                            <<"Stage name '%s' should be lowercase", stageName>>,
                            <<"https://docs.docker.com/reference/build-checks/", "stage-name-casing", "/">>)>>
                 ELSE <<>>)
             \o (IF ~checkFromAsCasing(node.Value, node.Original)
                 THEN <<NewWarningRule(node, "FromAsCasing",
                            <<"FROM instruction with AS keyword uses inconsistent casing. Ensure that both FROM and AS keywords use the same casing style (either both uppercase or both lowercase) for better readability.">>,
                            <<"https://docs.docker.com/reference/build-checks/", "from-as-casing", "/">>)>>
                 ELSE <<>>)

---------------------------------------------------------------------------
(* json.Unmarshal of a text into a []string.                               *)

RECURSIVE jsonSkipSpace(_, _)
jsonSkipSpace(s, p) ==
    IF p <= Len(s) /\ s[p] \in WhiteSpace THEN jsonSkipSpace(s, p + 1) ELSE p

JsonHex == Digits \cup {"a","b","c","d","e","f","A","B","C","D","E","F"}

\* The position after the closing quote of the string whose inside starts
\* at p, or 0 when the string is malformed.
RECURSIVE jsonStringEnd(_, _)
jsonStringEnd(s, p) ==
    IF p > Len(s) THEN 0
    ELSE IF s[p] = "\"" THEN p + 1
    ELSE IF s[p] \in {"\t", "\n", "\r"} THEN 0
    ELSE IF s[p] = "\\"
    THEN IF p + 1 > Len(s) THEN 0
         ELSE IF s[p + 1] \in {"\"", "\\", "/", "b", "f", "n", "r", "t"}
         THEN jsonStringEnd(s, p + 2)
         ELSE IF s[p + 1] = "u" /\ p + 5 <= Len(s)
                 /\ \A k \in (p + 2)..(p + 5) : s[k] \in JsonHex
         THEN jsonStringEnd(s, p + 6)
         ELSE 0
    ELSE jsonStringEnd(s, p + 1)

\* The position after the element (a string or null) at p, or 0.
jsonElementEnd(s, p) ==
    IF p > Len(s) THEN 0
    ELSE IF s[p] = "\"" THEN jsonStringEnd(s, p + 1)
    ELSE IF p + 3 <= Len(s) /\ SubSeq(s, p, p + 3) = <<"n","u","l","l">> THEN p + 4
    ELSE 0

\* The elements from p on, count of them already read; the result is the
\* length of the array, or -1 for an error.
RECURSIVE jsonElements(_, _, _)
jsonElements(s, p, count) ==
    LET e == jsonElementEnd(s, jsonSkipSpace(s, p))
        q == jsonSkipSpace(s, e)
    IN  IF e = 0 \/ q > Len(s) THEN -1
        ELSE IF s[q] = "," THEN jsonElements(s, q + 1, count + 1)
        ELSE IF s[q] = "]" /\ jsonSkipSpace(s, q + 1) > Len(s) THEN count + 1
        ELSE -1

\* len(arr) after a successful json.Unmarshal(text, &arr), -1 for an error.
jsonUnmarshalStrings(s) ==
    LET p == jsonSkipSpace(s, 1)
        q == jsonSkipSpace(s, p + 1)
    IN  IF p > Len(s) THEN -1
        ELSE IF p + 3 <= Len(s) /\ SubSeq(s, p, p + 3) = <<"n","u","l","l">>
                /\ jsonSkipSpace(s, p + 4) > Len(s) THEN 0
        ELSE IF s[p] # "[" THEN -1
        ELSE IF q <= Len(s) /\ s[q] = "]" /\ jsonSkipSpace(s, q + 1) > Len(s) THEN 0
        ELSE jsonElements(s, p + 1, 0)

---------------------------------------------------------------------------
(* parseWorkdir.                                                           *)

checkWorkdirAbsolute(workdirPath) ==
    \/ HasPrefix(workdirPath, <<"/">>)
    \/ Len(workdirPath) >= 2 /\ workdirPath[2] = ":" /\ workdirPath[1] \in Letters
    \/ HasPrefix(workdirPath, <<"$">>)

parseWorkdir(node) ==
    IF ~node.HasNext
    THEN <<invalidInstructionRule(node, <<"WORKDIR requires exactly one argument">>)>>
    ELSE IF ~checkWorkdirAbsolute(node.Next[1].Value)
    THEN <<NewWarningRule(node, "WorkdirRelativePath",
               <<"WORKDIR uses a relative path. Consider using an absolute path (starting with /) to avoid issues when the base image's working directory changes.">>,
               <<"https://docs.docker.com/reference/build-checks/", "workdir-relative-path", "/">>)>>
    ELSE <<>>

---------------------------------------------------------------------------
(* parseRun.                                                               *)

\* extractRunCommand and its copies: the argument values joined by spaces.
JoinedArguments(node) == Join([k \in 1..Len(node.Next) |-> node.Next[k].Value])

extractRunCommand(node) == JoinedArguments(node)

checkExecFormJSON(text) ==
    LET command == TrimSpace(text)
    IN  /\ HasPrefix(command, <<"[">>)
        /\ HasSuffix(command, <<"]">>)
        /\ jsonUnmarshalStrings(command) > 0
        /\ ~Contains(command, <<"[", "'">>)
        /\ ~Contains(command, <<"'", "]">>)

validMountTypes == {<<"b","i","n","d">>, <<"c","a","c","h","e">>, <<"t","m","p","f","s">>, <<"s","e","c","r","e","t">>, <<"s","s","h">>}
validNetworks == {<<"d","e","f","a","u","l","t">>, <<"n","o","n","e">>, <<"h","o","s","t">>}
validSecurity == {<<"s","a","n","d","b","o","x">>, <<"i","n","s","e","c","u","r","e">>}

checkMountFlag(mountValue) ==
    IF mountValue = <<>> THEN FALSE
    ELSE IF HasPrefix(mountValue, <<"t","y","p","e","=">>)
    THEN TrimPrefix(SplitN2(mountValue, ",")[1], <<"t","y","p","e","=">>) \in validMountTypes
    ELSE Len(mountValue) > 0

checkNetworkFlag(networkValue) == networkValue \in validNetworks
checkSecurityFlag(securityValue) == securityValue \in validSecurity

\* The loop of parseRun over node.Flags from flag k on.
RECURSIVE runFlagLoop(_, _)
runFlagLoop(node, k) ==
    IF k > Len(node.Flags) THEN <<>>
    ELSE LET flag == node.Flags[k] IN
         IF HasPrefix(flag, <<"-","-","m","o","u","n","t","=">>) /\ ~checkMountFlag(TrimPrefix(flag, <<"-","-","m","o","u","n","t","=">>))
         THEN <<NewErrorRule(node, "RunInvalidMountFlag",
                             <<"RUN --mount flag has invalid format: '%s'", flag>>,
                             <<"https://docs.docker.com/reference/dockerfile/", "#run---mount">>)>>
         ELSE IF HasPrefix(flag, <<"-","-","n","e","t","w","o","r","k","=">>) /\ ~checkNetworkFlag(TrimPrefix(flag, <<"-","-","n","e","t","w","o","r","k","=">>))
         THEN <<NewErrorRule(node, "RunInvalidNetworkFlag",
                             <<"RUN --network flag must be one of: default, none, host. Got: '%s'",
                               TrimPrefix(flag, <<"-","-","n","e","t","w","o","r","k","=">>)>>,
                             <<"https://docs.docker.com/reference/dockerfile/", "#run---network">>)>>
         ELSE IF HasPrefix(flag, <<"-","-","s","e","c","u","r","i","t","y","=">>) /\ ~checkSecurityFlag(TrimPrefix(flag, <<"-","-","s","e","c","u","r","i","t","y","=">>))
         THEN <<NewErrorRule(node, "RunInvalidSecurityFlag",
                             <<"RUN --security flag must be one of: sandbox, insecure. Got: '%s'",
                               TrimPrefix(flag, <<"-","-","s","e","c","u","r","i","t","y","=">>)>>,
                             <<"https://docs.docker.com/reference/dockerfile/", "#run---security">>)>>
         ELSE runFlagLoop(node, k + 1)

parseRun(node) ==
    LET command == extractRunCommand(node)
    IN  IF ~node.HasNext
        THEN <<invalidInstructionRule(node, <<"RUN requires at least one argument">>)>>
        ELSE IF TrimSpace(command) = <<>>
        THEN <<NewErrorRule(node, "RunMissingCommand",
                            <<"RUN instruction must specify a command to execute">>,
                            <<"https://docs.docker.com/reference/dockerfile/", "#run">>)>>
        ELSE IF HasPrefix(TrimSpace(command), <<"[">>) /\ ~checkExecFormJSON(command)
        THEN <<NewErrorRule(node, "RunInvalidExecForm",
                            <<"RUN exec form must be a valid JSON array with double quotes">>,
                            <<"https://docs.docker.com/reference/dockerfile/", "#run">>)>>
        ELSE runFlagLoop(node, 1)

---------------------------------------------------------------------------
(* parseEXPOSE.                                                            *)

DigitValue == [c \in Digits |-> CHOOSE n \in 0..9 : <<"0","1","2","3","4","5","6","7","8","9">>[n + 1] = c]

RECURSIVE DecimalValue(_)
DecimalValue(digits) ==
    IF digits = <<>> THEN 0
    ELSE 10 * DecimalValue(SubSeq(digits, 1, Len(digits) - 1)) + DigitValue[digits[Len(digits)]]

\* a > b for two digit strings of the same length.
RECURSIVE DigitsGreater(_, _)
DigitsGreater(a, b) ==
    IF a = <<>> THEN FALSE
    ELSE IF DigitValue[a[1]] # DigitValue[b[1]] THEN DigitValue[a[1]] > DigitValue[b[1]]
    ELSE DigitsGreater(Tail(a), Tail(b))

MaxInt64 == <<"9","2","2","3","3","7","2","0","3","6","8","5","4","7","7","5","8","0","7">>
MinInt64Magnitude == <<"9","2","2","3","3","7","2","0","3","6","8","5","4","7","7","5","8","0","8">>
MaxPort == 65535
PortDigits == 5

\* strconv.Atoi on a 64-bit platform.  err is TRUE for a syntax or a range
\* error; otherwise the value is -magnitude when negative, and large tells
\* that the magnitude has more than PortDigits digits (it is then left out).
Atoi(s) ==
    LET signed == s # <<>> /\ s[1] \in {"+", "-"}
        negative == s # <<>> /\ s[1] = "-"
        body == IF signed THEN Tail(s) ELSE s
        stripped == TrimLeft(body, {"0"})
        limit == IF negative THEN MinInt64Magnitude ELSE MaxInt64
        outOfRange == \/ Len(stripped) > Len(limit)
                      \/ Len(stripped) = Len(limit) /\ DigitsGreater(stripped, limit)
    IN  IF body = <<>> \/ ~AllIn(body, Digits) \/ outOfRange
        THEN [err |-> TRUE, negative |-> FALSE, large |-> FALSE, magnitude |-> 0]
        ELSE [err |-> FALSE, negative |-> negative,
              large |-> Len(stripped) > PortDigits,
              magnitude |-> IF Len(stripped) > PortDigits THEN 0 ELSE DecimalValue(stripped)]

checkExposeFormat(portSpec) == ~(Count(portSpec, ":") > 0)

checkExposePortRange(portSpec) ==
    LET portStr == IF Contains(portSpec, <<"/">>) THEN Split(portSpec, "/")[1] ELSE portSpec
        port == Atoi(portStr)
    IN  IF port.err THEN TRUE
        ELSE IF port.large THEN FALSE
        ELSE IF port.negative THEN port.magnitude = 0
        ELSE port.magnitude <= MaxPort

checkExposeValidProtocol(portSpec) ==
    IF ~Contains(portSpec, <<"/">>) THEN TRUE
    ELSE IF Len(Split(portSpec, "/")) # 2 THEN TRUE
    ELSE ToLower(Split(portSpec, "/")[2]) \in {<<"t","c","p">>, <<"u","d","p">>}

checkExposeProtoCasing(portSpec) ==
    IF ~Contains(portSpec, <<"/">>) THEN TRUE
    ELSE IF Len(Split(portSpec, "/")) # 2 THEN TRUE
    ELSE Split(portSpec, "/")[2] = ToLower(Split(portSpec, "/")[2])

\* The first loop of parseEXPOSE from argument k on: the rule it returns,
\* or <<>> when every argument passes.
RECURSIVE exposeErrorLoop(_, _)
exposeErrorLoop(node, k) ==
    IF k > Len(node.Next) THEN <<>>
    ELSE LET value == node.Next[k].Value IN
         IF ~checkExposeFormat(value)
         THEN <<NewErrorRule(node, "ExposeInvalidFormat",
                    <<"EXPOSE instruction should not define an IP address or host-port mapping, found '%s'", value>>,
                    <<"https://docs.docker.com/reference/build-checks/", "expose-invalid-format", "/">>)>>
         ELSE IF ~checkExposePortRange(value)
         THEN <<NewErrorRule(node, "ExposePortOutOfRange",
                    <<"Port number in EXPOSE instruction is outside valid UNIX port range (0-65535): '%s'", value>>,
                    <<"https://en.wikipedia.org/wiki/List_of_TCP_and_UDP_port_numbers">>)>>
         ELSE IF ~checkExposeValidProtocol(value)
         THEN <<NewErrorRule(node, "ExposeInvalidProtocol",
                    <<"Invalid protocol in EXPOSE instruction '%s', only 'tcp' and 'udp' are supported", value>>,
                    <<"https://docs.docker.com/reference/dockerfile/", "#expose">>)>>
         ELSE exposeErrorLoop(node, k + 1)

\* parseEXPOSE without the return on the first error: the warnings follow it.
parseEXPOSECollecting(node) ==
    IF ~node.HasNext
    THEN <<invalidInstructionRule(node, <<"EXPOSE requires at least one argument">>)>>
    ELSE exposeErrorLoop(node, 1) \o ConcatMap(node.Next, LAMBDA current :
             IF ~checkExposeProtoCasing(current.Value)
             THEN <<NewWarningRule(node, "ExposeProtoCasing",
                        <<"Defined protocol '%s' in EXPOSE instruction should be lowercase", current.Value>>,
                        <<"https://docs.docker.com/reference/build-checks/", "expose-proto-casing", "/">>)>>
             ELSE <<>>)

parseEXPOSE(node) ==
    IF ~node.HasNext
    THEN <<invalidInstructionRule(node, <<"EXPOSE requires at least one argument">>)>>
    ELSE IF exposeErrorLoop(node, 1) # <<>> THEN exposeErrorLoop(node, 1)
    ELSE ConcatMap(node.Next, LAMBDA current :
             IF ~checkExposeProtoCasing(current.Value)
             THEN <<NewWarningRule(node, "ExposeProtoCasing",
                        <<"Defined protocol '%s' in EXPOSE instruction should be lowercase", current.Value>>,
                        <<"https://docs.docker.com/reference/build-checks/", "expose-proto-casing", "/">>)>>
             ELSE <<>>)

---------------------------------------------------------------------------
(* parseCMD, parseENTRYPOINT and parseSHELL.                               *)

\* strings.TrimSpace(strings.TrimPrefix(node.Original, node.Value)).
TrimmedOriginal(node) == TrimSpace(TrimPrefix(node.Original, node.Value))

extractCMDCommand(node) == JoinedArguments(node)
extractENTRYPOINTCommand(node) == JoinedArguments(node)
extractSHELLConfig(node) == IF ~node.HasNext THEN <<>> ELSE TrimmedOriginal(node)

checkCMDExecFormJSON(text) ==
    LET command == TrimSpace(text)
    IN  /\ HasPrefix(command, <<"[">>)
        /\ HasSuffix(command, <<"]">>)
        /\ jsonUnmarshalStrings(command) >= 0
        /\ ~Contains(command, <<"[", "'">>)
        /\ ~Contains(command, <<"'", "]">>)

checkENTRYPOINTExecFormJSON(text) == checkExecFormJSON(text)
checkSHELLJsonForm(text) == checkExecFormJSON(text)

parseCMD(node) ==
    LET trimmedOriginal == TrimmedOriginal(node)
        command == IF extractCMDCommand(node) = <<>> THEN trimmedOriginal
                   ELSE extractCMDCommand(node)
    IN  IF ~node.HasNext /\ trimmedOriginal # <<"[", "]">>
        THEN <<invalidInstructionRule(node, <<"CMD requires at least one argument">>)>>
        ELSE IF TrimSpace(command) = <<>>
        THEN <<NewErrorRule(node, "CmdMissingCommand",
                            <<"CMD instruction must specify a command to execute">>,
                            <<"https://docs.docker.com/reference/dockerfile/", "#cmd">>)>>
        ELSE IF HasPrefix(TrimSpace(trimmedOriginal), <<"[">>)
                /\ ~checkCMDExecFormJSON(trimmedOriginal)
        THEN <<NewErrorRule(node, "CmdInvalidExecForm",
                            <<"CMD exec form must be a valid JSON array with double quotes">>,
                            <<"https://docs.docker.com/reference/dockerfile/", "#cmd">>)>>
        ELSE <<>>

parseENTRYPOINT(node) ==
    LET trimmedOriginal == TrimmedOriginal(node)
        command == IF extractENTRYPOINTCommand(node) = <<>> THEN trimmedOriginal
                   ELSE extractENTRYPOINTCommand(node)
    IN  IF ~node.HasNext
        THEN <<invalidInstructionRule(node, <<"ENTRYPOINT requires at least one argument">>)>>
        ELSE IF TrimSpace(command) = <<>>
        THEN <<NewErrorRule(node, "EntrypointMissingCommand",
                            <<"ENTRYPOINT instruction must specify a command to execute">>,
                            <<"https://docs.docker.com/reference/dockerfile/", "#entrypoint">>)>>
        ELSE IF HasPrefix(TrimSpace(trimmedOriginal), <<"[">>)
                /\ ~checkENTRYPOINTExecFormJSON(trimmedOriginal)
        THEN <<NewErrorRule(node, "EntrypointInvalidExecForm",
                            <<"ENTRYPOINT exec form must be a valid JSON array with double quotes">>,
                            <<"https://docs.docker.com/reference/dockerfile/", "#entrypoint">>)>>
        ELSE <<>>

parseSHELL(node) ==
    LET shellConfig == extractSHELLConfig(node)
    IN  IF ~node.HasNext
        THEN <<invalidInstructionRule(node, <<"SHELL requires at least one argument">>)>>
        ELSE IF TrimSpace(shellConfig) = <<>>
        THEN <<NewErrorRule(node, "ShellMissingConfig",
                            <<"SHELL instruction must specify a shell configuration">>,
                            <<"https://docs.docker.com/reference/dockerfile/", "#shell">>)>>
        ELSE IF ~HasPrefix(TrimSpace(shellConfig), <<"[">>)
        THEN <<NewErrorRule(node, "ShellRequiresJsonForm",
                            <<"SHELL instruction must be written in JSON form (e.g., SHELL [\"executable\", \"parameters\"])">>,
                            <<"https://docs.docker.com/reference/dockerfile/", "#shell">>)>>
        ELSE IF ~checkSHELLJsonForm(shellConfig)
        THEN <<NewErrorRule(node, "ShellInvalidJsonForm",
                            <<"SHELL instruction must be a valid JSON array with double quotes">>,
                            <<"https://docs.docker.com/reference/dockerfile/", "#shell">>)>>
        ELSE <<>>

---------------------------------------------------------------------------
(* parseADD and parseCOPY.                                                 *)

\* The number of argument nodes that do not start with "--".
ArgCount(node) ==
    Cardinality({k \in 1..Len(node.Next) : ~HasPrefix(node.Next[k].Value, <<"-", "-">>)})

validADDFlags == {<<"-","-","k","e","e","p","-","g","i","t","-","d","i","r">>, <<"-","-","c","h","e","c","k","s","u","m">>, <<"-","-","c","h","o","w","n">>, <<"-","-","c","h","m","o","d">>, <<"-","-","l","i","n","k">>, <<"-","-","e","x","c","l","u","d","e">>}
validCOPYFlags == {<<"-","-","f","r","o","m">>, <<"-","-","c","h","o","w","n">>, <<"-","-","c","h","m","o","d">>, <<"-","-","l","i","n","k">>, <<"-","-","p","a","r","e","n","t","s">>, <<"-","-","e","x","c","l","u","d","e">>}

isValidADDFlag(flag) == flag \in validADDFlags
isValidCOPYFlag(flag) == flag \in validCOPYFlags

\* strings.Split(flag, "=")[0] of the first flag that is not valid, or <<>>.
FirstInvalidFlag(node, IsValid(_)) ==
    LET bad == {k \in 1..Len(node.Flags) : ~IsValid(Split(node.Flags[k], "=")[1])}
    IN  IF bad = {} THEN <<>> ELSE <<Split(node.Flags[Min(bad)], "=")[1]>>

parseADD(node) ==
    IF ~node.HasNext
    THEN <<invalidInstructionRule(node, <<"ADD requires at least source and destination arguments">>)>>
    ELSE IF ArgCount(node) < 2
    THEN <<NewErrorRule(node, "AddMissingArguments",
                        <<"ADD instruction requires at least source and destination arguments">>,
                        <<"https://docs.docker.com/reference/dockerfile/", "#add">>)>>
    ELSE IF FirstInvalidFlag(node, isValidADDFlag) # <<>>
    THEN <<NewErrorRule(node, "AddInvalidFlag",
                        <<"ADD instruction has invalid flag: %s", FirstInvalidFlag(node, isValidADDFlag)[1]>>,
                        <<"https://docs.docker.com/reference/dockerfile/", "#add">>)>>
    ELSE <<>>

parseCOPY(node) ==
    IF ~node.HasNext
    THEN <<invalidInstructionRule(node, <<"COPY requires at least source and destination arguments">>)>>
    ELSE IF ArgCount(node) < 2
    THEN <<NewErrorRule(node, "CopyMissingArguments",
                        <<"COPY instruction requires at least source and destination arguments">>,
                        <<"https://docs.docker.com/reference/dockerfile/", "#copy">>)>>
    ELSE IF FirstInvalidFlag(node, isValidCOPYFlag) # <<>>
    THEN <<NewErrorRule(node, "CopyInvalidFlag",
                        <<"COPY instruction has invalid flag: %s", FirstInvalidFlag(node, isValidCOPYFlag)[1]>>,
                        <<"https://docs.docker.com/reference/dockerfile/", "#copy">>)>>
    ELSE <<>>

---------------------------------------------------------------------------
(* parseVOLUME and parseUSER.                                              *)

extractVOLUMEConfig(node) == JoinedArguments(node)
checkVOLUMEJsonForm(config) == checkExecFormJSON(config)

parseVOLUME(node) ==
    LET volumeConfig == extractVOLUMEConfig(node)
    IN  IF ~node.HasNext
        THEN <<invalidInstructionRule(node, <<"VOLUME requires at least one argument">>)>>
        ELSE IF TrimSpace(volumeConfig) = <<>>
        THEN <<NewErrorRule(node, "VolumeMissingPath",
                            <<"VOLUME instruction must specify at least one mount point">>,
                            <<"https://docs.docker.com/reference/dockerfile/", "#volume">>)>>
        ELSE IF HasPrefix(TrimSpace(volumeConfig), <<"[">>) /\ ~checkVOLUMEJsonForm(volumeConfig)
        THEN <<NewErrorRule(node, "VolumeInvalidJsonForm",
                            <<"VOLUME JSON form must be a valid JSON array with double quotes">>,
                            <<"https://docs.docker.com/reference/dockerfile/", "#volume">>)>>
        ELSE <<>>

extractUSERConfig(node) == JoinedArguments(node)

UserChars == Letters \cup Digits \cup {"_", ".", "$", "-"}

\* ^[a-zA-Z0-9_.$-]+(?::[a-zA-Z0-9_.$-]+)?$ on the trimmed text.
checkUSERFormat(text) ==
    LET config == TrimSpace(text)
        parts == Split(config, ":")
    IN  /\ config # <<>>
        /\ Len(parts) <= 2
        /\ \A k \in 1..Len(parts) : parts[k] # <<>> /\ AllIn(parts[k], UserChars)

parseUSER(node) ==
    LET userConfig == extractUSERConfig(node)
    IN  IF ~node.HasNext
        THEN <<invalidInstructionRule(node, <<"USER requires at least one argument">>)>>
        ELSE IF TrimSpace(userConfig) = <<>>
        THEN <<NewErrorRule(node, "UserMissingValue",
                            <<"USER instruction must specify a user">>,
                            <<"https://docs.docker.com/reference/dockerfile/", "#user">>)>>
        ELSE IF ~checkUSERFormat(userConfig)
        THEN <<NewErrorRule(node, "UserInvalidFormat",
                            <<"USER instruction must be in the format <user>[:<group>] or <UID>[:<GID>]">>,
                            <<"https://docs.docker.com/reference/dockerfile/", "#user">>)>>
        ELSE <<>>

---------------------------------------------------------------------------
(* parseLABEL and parseENV.                                                *)

\* checkLABELFormat and checkENVFormat: some field holds "=" after its
\* first character.
HasKeyValuePair(text) ==
    LET config == TrimSpace(text)
        parts == Fields(config)
    IN  /\ config # <<>>
        /\ Contains(config, <<"=">>)
        /\ \E k \in 1..Len(parts) :
              Contains(parts[k], <<"=">>) /\ ~HasPrefix(parts[k], <<"=">>)

extractLABELConfig(node) == IF ~node.HasNext THEN <<>> ELSE TrimmedOriginal(node)
checkLABELFormat(config) == HasKeyValuePair(config)

parseLABEL(node) ==
    LET labelConfig == extractLABELConfig(node)
    IN  IF ~node.HasNext
        THEN <<invalidInstructionRule(node, <<"LABEL requires at least one argument">>)>>
        ELSE IF TrimSpace(labelConfig) = <<>>
        THEN <<NewErrorRule(node, "LabelMissingKeyValue",
                            <<"LABEL instruction must specify at least one key=value pair">>,
                            <<"https://docs.docker.com/reference/dockerfile/", "#label">>)>>
        ELSE IF ~checkLABELFormat(labelConfig)
        THEN <<NewErrorRule(node, "LabelInvalidFormat",
                            <<"LABEL instruction must be in the format <key>=<value> [<key>=<value>...]">>,
                            <<"https://docs.docker.com/reference/dockerfile/", "#label">>)>>
        ELSE <<>>

extractENVConfig(node) == IF ~node.HasNext THEN <<>> ELSE TrimmedOriginal(node)
checkENVFormat(config) == HasKeyValuePair(config)

checkENVLegacySyntax(text) ==
    LET config == TrimSpace(text)
    IN  config # <<>> /\ Contains(config, <<" ">>) /\ ~Contains(config, <<"=">>)

legacyKeyValueUrl ==
    <<"https://docs.docker.com/reference/build-checks/", "legacy-key-value-format", "/">>

parseENV(node) ==
    LET envConfig == extractENVConfig(node)
    IN  IF ~node.HasNext
        THEN <<invalidInstructionRule(node, <<"ENV requires at least one argument">>)>>
        ELSE IF TrimSpace(envConfig) = <<>>
        THEN <<NewErrorRule(node, "EnvMissingKeyValue",
                            <<"ENV instruction must specify at least one key=value pair">>,
                            <<"https://docs.docker.com/reference/dockerfile/", "#env">>)>>
        ELSE IF ~checkENVLegacySyntax(envConfig) /\ ~checkENVFormat(envConfig)
        THEN <<NewErrorRule(node, "EnvInvalidFormat",
                            <<"ENV instruction must be in the format <key>=<value> [<key>=<value>...]">>,
                            <<"https://docs.docker.com/reference/dockerfile/", "#env">>)>>
        ELSE IF checkENVLegacySyntax(envConfig)
        THEN <<NewWarningRule(node, "LegacyKeyValueFormat",
                              <<"Legacy key/value format with whitespace separator should not be used. Use ENV key=value format instead">>,
                              legacyKeyValueUrl)>>
        ELSE <<>>

---------------------------------------------------------------------------
(* parseARG.                                                               *)

extractARGConfig(node) == JoinedArguments(node)

checkARGLegacySyntax(text) ==
    LET parts == Fields(TrimSpace(text))
    IN  /\ TrimSpace(text) # <<>>
        /\ Len(parts) > 1
        /\ \E k \in 1..Len(parts) : ~Contains(parts[k], <<"=">>)

\* ^[a-zA-Z_][a-zA-Z0-9_]*$.
isValidARGName(name) == name # <<>> /\ name[1] \in IdentStart /\ AllIn(name, IdentChar)

checkARGFormat(text) ==
    LET parts == Fields(TrimSpace(text))
    IN  /\ TrimSpace(text) # <<>>
        /\ \A k \in 1..Len(parts) :
              IF Contains(parts[k], <<"=">>)
              THEN isValidARGName(SplitN2(parts[k], "=")[1])
              ELSE isValidARGName(parts[k])

\* parseARG with the format check made before the legacy syntax is looked at.
parseARGFormatFirst(node) ==
    LET argConfig == extractARGConfig(node)
    IN  IF ~node.HasNext
        THEN <<invalidInstructionRule(node, <<"ARG requires at least one argument">>)>>
        ELSE IF TrimSpace(argConfig) = <<>>
        THEN <<NewErrorRule(node, "ArgMissingName",
                            <<"ARG instruction must specify at least one argument name">>,
                            <<"https://docs.docker.com/reference/dockerfile/", "#arg">>)>>
        ELSE IF ~checkARGFormat(argConfig)
        THEN <<NewErrorRule(node, "ArgInvalidFormat",
                            <<"ARG instruction must be in the format <name>[=<default value>]">>,
                            <<"https://docs.docker.com/reference/dockerfile/", "#arg">>)>>
        ELSE IF checkARGLegacySyntax(argConfig)
        THEN <<NewWarningRule(node, "LegacyKeyValueFormat",
                              <<"Legacy key/value format with whitespace separator should not be used. Use ARG key=value format instead">>,
                              legacyKeyValueUrl)>>
        ELSE <<>>

parseARG(node) ==
    LET argConfig == extractARGConfig(node)
    IN  IF ~node.HasNext
        THEN <<invalidInstructionRule(node, <<"ARG requires at least one argument">>)>>
        ELSE IF TrimSpace(argConfig) = <<>>
        THEN <<NewErrorRule(node, "ArgMissingName",
                            <<"ARG instruction must specify at least one argument name">>,
                            <<"https://docs.docker.com/reference/dockerfile/", "#arg">>)>>
        ELSE IF ~checkARGLegacySyntax(argConfig) /\ ~checkARGFormat(argConfig)
        THEN <<NewErrorRule(node, "ArgInvalidFormat",
                            <<"ARG instruction must be in the format <name>[=<default value>]">>,
                            <<"https://docs.docker.com/reference/dockerfile/", "#arg">>)>>
        ELSE IF checkARGLegacySyntax(argConfig)
        THEN <<NewWarningRule(node, "LegacyKeyValueFormat",
                              <<"Legacy key/value format with whitespace separator should not be used. Use ARG key=value format instead">>,
                              legacyKeyValueUrl)>>
        ELSE <<>>

---------------------------------------------------------------------------
(* parseHEALTHCHECK, parseONBUILD, parseSTOPSIGNAL and parseMAINTAINER.    *)

parseHEALTHCHECK(node) ==
    IF ~node.HasNext
    THEN <<invalidInstructionRule(node, <<"HEALTHCHECK requires arguments">>)>>
    ELSE IF ToUpper(node.Next[1].Value) = <<"N","O","N","E">> THEN <<>>
    ELSE IF ~\E k \in 1..Len(node.Next) : ToUpper(node.Next[k].Value) = <<"C","M","D">>
    THEN <<NewErrorRule(node, "HealthcheckMissingCmd",
                        <<"HEALTHCHECK instruction must include CMD keyword or be HEALTHCHECK NONE">>,
                        <<"https://docs.docker.com/reference/dockerfile/", "#healthcheck">>)>>
    ELSE <<>>

parseONBUILD(node) ==
    IF ~node.HasNext
    THEN <<invalidInstructionRule(node, <<"ONBUILD requires an instruction argument">>)>>
    ELSE IF TrimmedOriginal(node) = <<>>
    THEN <<NewErrorRule(node, "OnbuildMissingInstruction",
                        <<"ONBUILD must be followed by a Dockerfile instruction">>,
                        <<"https://docs.docker.com/reference/dockerfile/", "#onbuild">>)>>
    ELSE <<>>

parseSTOPSIGNAL(node) ==
    IF ~node.HasNext
    THEN <<invalidInstructionRule(node, <<"STOPSIGNAL requires a signal argument">>)>>
    ELSE IF TrimSpace(node.Next[1].Value) = <<>>
    THEN <<NewErrorRule(node, "StopsignalMissingValue",
                        <<"STOPSIGNAL must specify a signal">>,
                        <<"https://docs.docker.com/reference/dockerfile/", "#stopsignal">>)>>
    ELSE <<>>

parseMAINTAINER(node) ==
    IF ~node.HasNext
    THEN <<invalidInstructionRule(node, <<"MAINTAINER requires a name argument">>)>>
    ELSE IF TrimSpace(node.Next[1].Value) = <<>>
    THEN <<NewErrorRule(node, "MaintainerMissingName",
                        <<"MAINTAINER must specify a name">>,
                        <<"https://docs.docker.com/reference/dockerfile/", "#maintainer-deprecated">>)>>
    ELSE <<NewWarningRule(node, "MaintainerDeprecated",
                          <<"MAINTAINER instruction is deprecated in favor of using label">>,
                          <<"https://docs.docker.com/reference/build-checks/", "maintainer-deprecated", "/">>)>>

---------------------------------------------------------------------------
(* ParseDockerfile: the switch of the validator loop.                      *)

\* The switch with the keyword compared as written, without ToUpper.
insRulesCaseSensitive(child) ==
    LET insUppercase == child.Value IN
    IF insUppercase = <<"F","R","O","M">> THEN parseFROM(child)
    ELSE IF insUppercase = <<"W","O","R","K","D","I","R">> THEN parseWorkdir(child)
    ELSE IF insUppercase = <<"R","U","N">> THEN parseRun(child)
    ELSE IF insUppercase = <<"E","X","P","O","S","E">> THEN parseEXPOSE(child)
    ELSE IF insUppercase = <<"C","M","D">> THEN parseCMD(child)
    ELSE IF insUppercase = <<"E","N","T","R","Y","P","O","I","N","T">> THEN parseENTRYPOINT(child)
    ELSE IF insUppercase = <<"S","H","E","L","L">> THEN parseSHELL(child)
    ELSE IF insUppercase = <<"V","O","L","U","M","E">> THEN parseVOLUME(child)
    ELSE IF insUppercase = <<"U","S","E","R">> THEN parseUSER(child)
    ELSE IF insUppercase = <<"L","A","B","E","L">> THEN parseLABEL(child)
    ELSE IF insUppercase = <<"E","N","V">> THEN parseENV(child)
    ELSE IF insUppercase = <<"A","R","G">> THEN parseARG(child)
    ELSE IF insUppercase = <<"C","O","P","Y">> THEN parseCOPY(child)
    ELSE IF insUppercase = <<"A","D","D">> THEN parseADD(child)
    ELSE IF insUppercase = <<"H","E","A","L","T","H","C","H","E","C","K">> THEN parseHEALTHCHECK(child)
    ELSE IF insUppercase = <<"O","N","B","U","I","L","D">> THEN parseONBUILD(child)
    ELSE IF insUppercase = <<"S","T","O","P","S","I","G","N","A","L">> THEN parseSTOPSIGNAL(child)
    ELSE IF insUppercase = <<"M","A","I","N","T","A","I","N","E","R">> THEN parseMAINTAINER(child)
    ELSE <<NewFatalRule(child, "UnrecognizedInstruction",
                        <<"'%s' is not a recognized Dockerfile instruction", child.Value>>,
                        <<"https://docs.docker.com/reference/dockerfile/">>)>>

\* insRules after the switch, for one child.
insRules(child) ==
    LET insUppercase == ToUpper(child.Value) IN
    IF insUppercase = <<"F","R","O","M">> THEN parseFROM(child)
    ELSE IF insUppercase = <<"W","O","R","K","D","I","R">> THEN parseWorkdir(child)
    ELSE IF insUppercase = <<"R","U","N">> THEN parseRun(child)
    ELSE IF insUppercase = <<"E","X","P","O","S","E">> THEN parseEXPOSE(child)
    ELSE IF insUppercase = <<"C","M","D">> THEN parseCMD(child)
    ELSE IF insUppercase = <<"E","N","T","R","Y","P","O","I","N","T">> THEN parseENTRYPOINT(child)
    ELSE IF insUppercase = <<"S","H","E","L","L">> THEN parseSHELL(child)
    ELSE IF insUppercase = <<"V","O","L","U","M","E">> THEN parseVOLUME(child)
    ELSE IF insUppercase = <<"U","S","E","R">> THEN parseUSER(child)
    ELSE IF insUppercase = <<"L","A","B","E","L">> THEN parseLABEL(child)
    ELSE IF insUppercase = <<"E","N","V">> THEN parseENV(child)
    ELSE IF insUppercase = <<"A","R","G">> THEN parseARG(child)
    ELSE IF insUppercase = <<"C","O","P","Y">> THEN parseCOPY(child)
    ELSE IF insUppercase = <<"A","D","D">> THEN parseADD(child)
    ELSE IF insUppercase = <<"H","E","A","L","T","H","C","H","E","C","K">> THEN parseHEALTHCHECK(child)
    ELSE IF insUppercase = <<"O","N","B","U","I","L","D">> THEN parseONBUILD(child)
    ELSE IF insUppercase = <<"S","T","O","P","S","I","G","N","A","L">> THEN parseSTOPSIGNAL(child)
    ELSE IF insUppercase = <<"M","A","I","N","T","A","I","N","E","R">> THEN parseMAINTAINER(child)
    ELSE <<NewFatalRule(child, "UnrecognizedInstruction",
                        <<"'%s' is not a recognized Dockerfile instruction", child.Value>>,
                        <<"https://docs.docker.com/reference/dockerfile/">>)>>

---------------------------------------------------------------------------
(* ParseDockerfile, one action per step.                                   *)

\* The pass order with the JSON-args and undefined-variable passes exchanged.
PassOrderSwapped ==
    <<"warnings", "continuations", "casing", "duplicateStages", "platformConst",
      "undefinedVar", "undefinedArgInFrom", "jsonArgs", "multipleInstructions",
      "secrets", "invalidDefaultArg">>

\* The order in which ParseDockerfile runs its passes.
PassOrder ==
    <<"warnings", "continuations", "casing", "duplicateStages", "platformConst",
      "jsonArgs", "undefinedArgInFrom", "undefinedVar", "multipleInstructions",
      "secrets", "invalidDefaultArg">>

PassIndex(p) == CHOOSE k \in 1..Len(PassOrder) : PassOrder[k] = p
After(p) == IF PassIndex(p) = Len(PassOrder) THEN "validate" ELSE PassOrder[PassIndex(p) + 1]

AST == Children(dockerfile)

\* The value returned when parser.Parse fails.
Failure == [Rules |-> <<>>, Score |-> 0, Err |-> TRUE]

ParseStep ==
    /\ pc = "parse"
    /\ IF ParseFails(dockerfile)
       THEN results' = Append(results, Failure) /\ pc' = "done"
       ELSE results' = results /\ pc' = PassOrder[1]
    /\ parseRules' = <<>>
    /\ idx' = 0
    /\ UNCHANGED <<dockerfile, warnings, action, conc>>

\* A pass appends its rules to parseRules.
Pass(p, rules) ==
    /\ pc = p
    /\ parseRules' = parseRules \o rules
    /\ pc' = After(p)
    /\ UNCHANGED <<dockerfile, warnings, idx, results, action, conc>>

ConvertWarnings == Pass("warnings", convertWarnings(Warnings(dockerfile, warnings)))
EmptyContinuations == Pass("continuations", checkEmptyContinuations(ContentLines(dockerfile)))
InstructionCasing == Pass("casing", checkConsistentInstructionCasing(AST))
DuplicateStageNames ==
    \E order \in KeyOrders(AST) : Pass("duplicateStages", checkDuplicateStageNames(AST, order))
PlatformFlagConst == Pass("platformConst", checkPlatformFlagConstDisallowed(AST))
JSONArgsRecommended == Pass("jsonArgs", checkJSONArgsRecommended(AST))
UndefinedArgInFrom == Pass("undefinedArgInFrom", checkUndefinedArgInFrom(AST))
UndefinedVar == Pass("undefinedVar", checkUndefinedVar(AST))
MultipleInstructions == Pass("multipleInstructions", checkMultipleInstructionsDisallowed(AST))
SecretsInArgOrEnv == Pass("secrets", checkSecretsInArgOrEnv(AST))
InvalidDefaultArgInFrom == Pass("invalidDefaultArg", checkInvalidDefaultArgInFrom(AST))

\* One iteration of the validator loop.
Validate ==
    /\ pc = "validate"
    /\ idx < Len(AST)
    /\ parseRules' = parseRules \o insRules(AST[idx + 1])
    /\ idx' = idx + 1
    /\ pc' = IF idx + 1 = Len(AST) THEN "score" ELSE "validate"
    /\ UNCHANGED <<dockerfile, warnings, results, action, conc>>

\* A further call of ParseDockerfile on the same content.
CallAgain ==
    /\ pc = "done"
    /\ Len(results) < MaxCalls
    /\ pc' = "parse"
    /\ UNCHANGED <<dockerfile, warnings, idx, parseRules, results, action, conc>>

Passes ==
    \/ ConvertWarnings
    \/ EmptyContinuations
    \/ InstructionCasing
    \/ DuplicateStageNames
    \/ PlatformFlagConst
    \/ JSONArgsRecommended
    \/ UndefinedArgInFrom
    \/ UndefinedVar
    \/ MultipleInstructions
    \/ SecretsInArgOrEnv
    \/ InvalidDefaultArgInFrom

InitParse(inputs, extra) ==
    /\ dockerfile \in inputs
    /\ warnings \in extra
    /\ pc = "parse"
    /\ idx = 0
    /\ parseRules = <<>>
    /\ results = <<>>

\* FROM alpine / CMD echo hi / CMD echo bye
TwoCmdExample == <<1, 6, 68>>

\* FROM alpine AS build / FROM alpine AS BUILD
BuildExample == <<130, 131>>

\* Dockerfiles of up to MaxInstr core instructions, every catalogue entry on
\* its own, and the two examples; up to MaxWarnings further parser warnings.
Dockerfiles ==
    SeqsUpTo(CoreIdx, MaxInstr) \cup {<<k>> : k \in 1..Len(Catalog)}
        \cup {TwoCmdExample, BuildExample}

Init == InitParse(Dockerfiles, SeqsUpTo(1..Len(WarningCatalog), MaxWarnings)) /\ Idle

Next == ParseStep \/ Passes \/ Validate \/ ScoreStep

Spec == Init /\ [][Next]_vars

\* Dockerfiles of up to MaxStages FROM instructions, each parsed MaxCalls
\* times.
StageDockerfiles == SeqsUpTo(StageIdx, MaxStages)

InitStages == InitParse(StageDockerfiles, {<<>>}) /\ Idle

NextStages == ParseStep \/ Passes \/ Validate \/ ScoreStep \/ CallAgain

SpecStages == InitStages /\ [][NextStages]_vars

\* Dockerfiles of up to MaxMulti instructions among FROM, CMD in two letter
\* cases, ENTRYPOINT and HEALTHCHECK.
MultiDockerfiles == SeqsUpTo(MultiIdx, MaxMulti)

InitMulti == InitParse(MultiDockerfiles, {<<>>}) /\ Idle

SpecMulti == InitMulti /\ [][Next]_vars

\* Dockerfiles of up to MaxVars instructions among FROM, ARG and ENV
\* declarations with and without variable references, and a COPY that
\* refers to variables.
VarsDockerfiles == SeqsUpTo(VarsIdx, MaxVars)

InitVars == InitParse(VarsDockerfiles, {<<>>}) /\ Idle

SpecVars == InitVars /\ [][Next]_vars

\* Dockerfiles of up to MaxPlatform FROM instructions with constant and
\* variable platforms, stage names with and without a separator, and
\* references to stages by name, by prefix and in another letter case.
PlatformDockerfiles == SeqsUpTo(PlatformIdx, MaxPlatform)

InitPlatform == InitParse(PlatformDockerfiles, {<<>>}) /\ Idle

SpecPlatform == InitPlatform /\ [][Next]_vars

\* Dockerfiles of up to MaxArgFrom instructions among ARG declarations and
\* FROM lines whose image reference refers to variables as $NAME and ${NAME}.
ArgFromDockerfiles == SeqsUpTo(ArgFromIdx, MaxArgFrom)

InitArgFrom == InitParse(ArgFromDockerfiles, {<<>>}) /\ Idle

SpecArgFrom == InitArgFrom /\ [][Next]_vars

\* Dockerfiles of up to MaxDefaultArg instructions among an ARG without a
\* default, an ARG with one, and FROM lines that use them at positions
\* where an empty value does or does not break the image reference.
DefaultArgDockerfiles == SeqsUpTo(DefaultArgIdx, MaxDefaultArg)

InitDefaultArg == InitParse(DefaultArgDockerfiles, {<<>>}) /\ Idle

SpecDefaultArg == InitDefaultArg /\ [][Next]_vars

\* Dockerfiles of up to MaxExec instructions among FROM, an ARG, and RUN,
\* CMD and ENTRYPOINT in shell form, in exec form, and in a shell form that
\* begins with "[".
ExecDockerfiles == SeqsUpTo(ExecIdx, MaxExec)

InitExec == InitParse(ExecDockerfiles, {<<>>}) /\ Idle

SpecExec == InitExec /\ [][Next]_vars

\* Dockerfiles of up to MaxShell instructions among FROM, SHELL, and CMD and
\* ENTRYPOINT in shell form, in exec form and without arguments.
ShellDockerfiles == SeqsUpTo(ShellIdx, MaxShell)

InitShell == InitParse(ShellDockerfiles, {<<>>}) /\ Idle

SpecShell == InitShell /\ [][Next]_vars

\* Dockerfiles of up to MaxCasing instructions whose keywords are written in
\* uppercase, in lowercase and in mixed case.
CasingDockerfiles == SeqsUpTo(CasingIdx, MaxCasing)

InitCasing == InitParse(CasingDockerfiles, {<<>>}) /\ Idle

SpecCasing == InitCasing /\ [][Next]_vars

---------------------------------------------------------------------------
(* The command-line analyzer (cmd/dockadvisor/main.go) and the workflow    *)
(* wrapper (entrypoint.sh).  A line of text is a sequence of one-character *)
(* strings in which a rule's code and the fixed part of its description    *)
(* stand as single elements; the value of a shell variable is the sequence *)
(* of its lines.                                                           *)

DigitChars == <<"0","1","2","3","4","5","6","7","8","9">>

\* The %d verb for a natural number.
RECURSIVE Itoa(_)
Itoa(n) ==
    IF n < 10 THEN <<DigitChars[n + 1]>>
    ELSE Itoa(n \div 10) \o <<DigitChars[(n % 10) + 1]>>

\* The date and time the log package writes before every line.
LogPrefixes ==
    {<<"2","0","2","6","/","1","1","/","0","4"," ","1","2",":","0","0",":","0","0"," ">>,
     <<"1","9","9","9","/","1","2","/","3","1"," ","2","3",":","5","9",":","5","9"," ">>}

\* The description of a rule as text.
DescriptionText(description) ==
    IF description = <<>> THEN <<>>
    ELSE <<description[1]>> \o Flatten(Tail(description))

\* The line main prints for one rule.
ruleLine(rule) ==
    <<"L","i","n","e"," ">> \o Itoa(rule.StartLine)
    \o (IF rule.StartLine = rule.EndLine THEN <<>> ELSE <<"-">> \o Itoa(rule.EndLine))
    \o <<":", " ", "[", rule.Code, "]", " ">> \o DescriptionText(rule.Description)

\* The lines main writes to standard error for the value ParseDockerfile
\* returns: log.Fatal on an error, else the rules and the score.
main(prefix, result) ==
    IF result.Err
    THEN <<prefix \o <<"E","r","r","o","r"," ","p","a","r","s","i","n","g"," ","D","o","c","k","e","r","f","i","l","e",":">>
                  \o <<"failed to parse dockerfile: %v">>>>
    ELSE <<prefix \o <<"R","u","l","e","s",":">>, prefix \o <<"-","-","-","-","-","-">>>>
         \o [k \in 1..Len(result.Rules) |-> prefix \o ruleLine(result.Rules[k])]
         \o <<prefix \o <<"-","-","-","-","-","-">>,
              prefix \o <<"D","o","c","k","e","r","f","i","l","e"," ","S","c","o","r","e",":"," ">> \o Itoa(result.Score) \o <<"/","1","0","0">>>>

\* grep PATTERN: the lines that contain the pattern.
grep(lines, pattern) == SelectSeq(lines, LAMBDA line : Contains(line, pattern))

RECURSIVE DigitRunLen(_, _)
DigitRunLen(s, p) == IF p <= Len(s) /\ s[p] \in Digits THEN 1 + DigitRunLen(s, p + 1) ELSE 0

\* grep -o '[0-9]\+' on one line: its maximal runs of digits.
RECURSIVE digitRuns(_, _)
digitRuns(s, p) ==
    IF p > Len(s) THEN <<>>
    ELSE IF s[p] \in Digits
         THEN <<SubSeq(s, p, p + DigitRunLen(s, p) - 1)>> \o digitRuns(s, p + DigitRunLen(s, p))
         ELSE digitRuns(s, p + 1)
grepDigits(lines) == ConcatMap(lines, LAMBDA line : digitRuns(line, 1))

\* grep -c "^\[": the number of lines that begin with "[".
grepCountBracket(lines) ==
    Cardinality({k \in 1..Len(lines) : lines[k] # <<>> /\ lines[k][1] = "["})

\* SCORE=$(echo "$OUTPUT" | grep "Dockerfile Score:" | grep -o '[0-9]\+' || echo "0")
extractSCORE(OUTPUT) ==
    LET runs == grepDigits(grep(OUTPUT, <<"D","o","c","k","e","r","f","i","l","e"," ","S","c","o","r","e",":">>))
    IN  IF runs = <<>> THEN <<<<"0">>>> ELSE runs

\* TOTAL_RULES=$(echo "$OUTPUT" | grep -c "^\[" || echo "0"): grep -c prints
\* 0 and fails when no line matches, and echo adds a second line.
extractTOTAL_RULES(OUTPUT) ==
    IF grepCountBracket(OUTPUT) = 0 THEN <<<<"0">>, <<"0">>>>
    ELSE <<Itoa(grepCountBracket(OUTPUT))>>

\* A shell string that the test command accepts as an integer.
IsInteger(value) ==
    /\ Len(value) = 1
    /\ value[1] # <<>>
    /\ \A k \in 1..Len(value[1]) : value[1][k] \in Digits
IntegerOf(value) == DecimalValue(value[1])
\* [ "$a" -gt "$b" ] and [ "$a" -lt "$b" ]: false also when the test command
\* fails with "integer expression expected".
TestGt(a, b) == IsInteger(a) /\ IsInteger(b) /\ IntegerOf(a) > IntegerOf(b)
TestLt(a, b) == IsInteger(a) /\ IsInteger(b) /\ IntegerOf(a) < IntegerOf(b)

\* The estimate of lines 42-59 for an integer score and a positive total.
estimate(score, total) ==
    LET SCORE_PENALTY == 100 - score
        e == IF score < 50 THEN SCORE_PENALTY \div 15 ELSE total - (SCORE_PENALTY \div 5)
        w == IF score < 50 THEN total - (SCORE_PENALTY \div 15) ELSE SCORE_PENALTY \div 5
    IN  [ERRORS |-> IF e < 0 THEN 0 ELSE e, WARNINGS |-> IF w < 0 THEN 0 ELSE w]

\* The match of Line ([0-9]+)(-([0-9]+))?: \[([^\]]+)\] (.+) that starts at
\* position p of a line, as the annotation it produces, or <<>>.
annotationAt(line, p) ==
    LET word == <<"L","i","n","e"," ">>
        n1 == DigitRunLen(line, p + Len(word))
        q == p + Len(word) + n1
        dash == q <= Len(line) /\ line[q] = "-" /\ DigitRunLen(line, q + 1) > 0
        n2 == IF dash THEN DigitRunLen(line, q + 1) ELSE 0
        r == IF dash THEN q + 1 + n2 ELSE q
        close == {k \in (r + 4)..Len(line) : line[k] = "]"}
        c == IF close = {} THEN 0 ELSE Min(close)
    IN  IF /\ p + Len(word) - 1 <= Len(line)
           /\ SubSeq(line, p, p + Len(word) - 1) = word
           /\ n1 > 0
           /\ r + 2 <= Len(line)
           /\ SubSeq(line, r, r + 2) = <<":", " ", "[">>
           /\ c # 0
           /\ c + 2 <= Len(line)
           /\ line[c + 1] = " "
        THEN <<[START_LINE |-> SubSeq(line, p + Len(word), q - 1),
                END_LINE |-> IF dash THEN SubSeq(line, q + 1, r - 1)
                             ELSE SubSeq(line, p + Len(word), q - 1),
                CODE |-> SubSeq(line, r + 3, c - 1)]>>
        ELSE <<>>
\* The annotation of a line: that of its leftmost match.
annotation(line) ==
    LET hits == {p \in 1..Len(line) : annotationAt(line, p) # <<>>}
    IN  IF hits = {} THEN <<>> ELSE annotationAt(line, Min(hits))

Passed == <<<<"p","a","s","s","e","d">>>>
Failed == <<<<"f","a","i","l","e","d">>>>

\* The inputs of the action: the Dockerfiles, fail-on-error, fail-on-warning
\* and minimum-score.
ActionDockerfiles ==
    {<<>>, <<1>>, <<1, 6>>, <<9>>, <<13>>, <<1, 10>>, TwoCmdExample, BuildExample}
MinimumScores == {0, 75, 100}

InitAction ==
    /\ dockerfile \in ActionDockerfiles
    /\ warnings = <<>>
    /\ pc = "idle"
    /\ idx = 0
    /\ parseRules = <<>>
    /\ results = <<>>
    /\ conc = <<>>
    /\ \E exists \in BOOLEAN, failOnError \in BOOLEAN, failOnWarning \in BOOLEAN,
          minimumScore \in MinimumScores, prefix \in LogPrefixes :
          action = [pc |-> "check",
                    exists |-> exists,
                    prefix |-> prefix,
                    FAIL_ON_ERROR |-> failOnError,
                    FAIL_ON_WARNING |-> failOnWarning,
                    MINIMUM_SCORE |-> <<Itoa(minimumScore)>>,
                    OUTPUT |-> <<>>,
                    SCORE |-> <<>>,
                    TOTAL_RULES |-> <<>>,
                    ERRORS |-> 0,
                    WARNINGS |-> 0,
                    GITHUB_OUTPUT |-> <<>>,
                    annotations |-> <<>>,
                    exit |-> -1]

\* Lines 16-23: the script stops when the file is missing, else it starts
\* the analyzer.
CheckFile ==
    /\ action.pc = "check"
    /\ IF action.exists
       THEN /\ action' = [action EXCEPT !.pc = "analyze"]
            /\ pc' = "parse"
       ELSE /\ action' = [action EXCEPT !.pc = "exited", !.exit = 1]
            /\ pc' = pc
    /\ UNCHANGED <<dockerfile, warnings, idx, parseRules, results, conc>>

\* Line 23: OUTPUT holds what the analyzer wrote; its exit status is dropped.
Analyzed ==
    /\ action.pc = "analyze"
    /\ pc = "done"
    /\ action' = [action EXCEPT !.pc = "extract",
                                !.OUTPUT = main(action.prefix, Last(results))]
    /\ UNCHANGED <<dockerfile, warnings, pc, idx, parseRules, results, conc>>

\* Lines 29-59.  The arithmetic expansion of line 45 fails, and ends the
\* script, when SCORE is not one integer.
Extract ==
    /\ action.pc = "extract"
    /\ LET SCORE == extractSCORE(action.OUTPUT)
           TOTAL_RULES == extractTOTAL_RULES(action.OUTPUT)
       IN  IF TestGt(TOTAL_RULES, <<<<"0">>>>)
           THEN IF IsInteger(SCORE)
                THEN action' = [action EXCEPT
                         !.pc = "outputs", !.SCORE = SCORE, !.TOTAL_RULES = TOTAL_RULES,
                         !.ERRORS = estimate(IntegerOf(SCORE), IntegerOf(TOTAL_RULES)).ERRORS,
                         !.WARNINGS = estimate(IntegerOf(SCORE), IntegerOf(TOTAL_RULES)).WARNINGS]
                ELSE action' = [action EXCEPT
                         !.pc = "exited", !.SCORE = SCORE, !.TOTAL_RULES = TOTAL_RULES,
                         !.exit = 1]
           ELSE action' = [action EXCEPT
                    !.pc = "outputs", !.SCORE = SCORE, !.TOTAL_RULES = TOTAL_RULES]
    /\ UNCHANGED <<dockerfile, warnings, pc, idx, parseRules, results, conc>>

\* Lines 61-86: the outputs score, errors and warnings and the annotations.
WriteOutputs ==
    /\ action.pc = "outputs"
    /\ action' = [action EXCEPT
           !.pc = "decide",
           !.GITHUB_OUTPUT = action.GITHUB_OUTPUT
               \o <<[name |-> "score", value |-> action.SCORE],
                    [name |-> "errors", value |-> <<Itoa(action.ERRORS)>>],
                    [name |-> "warnings", value |-> <<Itoa(action.WARNINGS)>>]>>,
           !.annotations = ConcatMap(action.OUTPUT, annotation)]
    /\ UNCHANGED <<dockerfile, warnings, pc, idx, parseRules, results, conc>>

\* Lines 88-105.
SHOULD_FAIL ==
    \/ action.FAIL_ON_ERROR /\ action.ERRORS > 0
    \/ action.FAIL_ON_WARNING /\ action.WARNINGS > 0
    \/ TestLt(action.SCORE, action.MINIMUM_SCORE)

\* Lines 107-117.
Decide ==
    /\ action.pc = "decide"
    /\ action' = [action EXCEPT
           !.pc = "exited",
           !.GITHUB_OUTPUT = action.GITHUB_OUTPUT
               \o <<[name |-> "result", value |-> IF SHOULD_FAIL THEN Failed ELSE Passed]>>,
           !.exit = IF SHOULD_FAIL THEN 1 ELSE 0]
    /\ UNCHANGED <<dockerfile, warnings, pc, idx, parseRules, results, conc>>

NextAction ==
    \/ CheckFile
    \/ ParseStep
    \/ Passes
    \/ Validate
    \/ ScoreStep
    \/ Analyzed
    \/ Extract
    \/ WriteOutputs
    \/ Decide

SpecAction == InitAction /\ [][NextAction]_vars

---------------------------------------------------------------------------
(* Concurrent callers of the secrets pass.  The package variables          *)
(* secretsRegexp, secretsAllowRegexp and secretsRegexpOnce are the only    *)
(* state the package shares between calls.  A caller runs                  *)
(* checkSecretsInArgOrEnv on its own Dockerfile; every call of             *)
(* isSensitiveVariableName goes through getSecretsRegex, whose             *)
(* secretsRegexpOnce.Do is sync.Once: an atomic load of done, and if it is *)
(* unset the mutex, a second look at done, the function, done set, the     *)
(* mutex released.  One step of a caller is one access to shared state.    *)

MaxCallers == 2

\* A nil *regexp.Regexp and a compiled one.
NilRegexp == [compiled |-> FALSE, tokens |-> {}]
MustCompile(tokens) == [compiled |-> TRUE, tokens |-> tokens]

\* The Dockerfiles the callers analyse: ARG TOKEN, ENV A=b and
\* ENV SECRET_KEY=x PUBLIC_KEY=y.
CallerDockerfiles == {<<2>>, <<95>>, <<99>>}

\* The calls of isSensitiveVariableName the loop of checkSecretsInArgOrEnv
\* makes, in order.
secretChecks(ast) ==
    ConcatMap(ast, LAMBDA child :
        IF ToUpper(child.Value) = <<"A","R","G">> \/ ToUpper(child.Value) = <<"E","N","V">>
        THEN [k \in 1..Len(extractVariableNamesFromInstruction(child)) |->
                 [child |-> child, varName |-> extractVariableNamesFromInstruction(child)[k]]]
        ELSE <<>>)

secretsUsedRule(child, varName) ==
    Rule(child.StartLine, child.EndLine, "SecretsUsedInArgOrEnv",
         <<"Sensitive data should not be used in %s instruction: '%s'. Consider using secret mounts instead",
           ToUpper(child.Value), varName>>,
         <<"https://docs.docker.com/reference/build-checks/", "secrets-used-in-arg-or-env", "/">>,
         SeverityWarning)

Callers == 1..MaxCallers
Caller(c) == conc.callers[c]
ChecksOf(c) == secretChecks(Children(Caller(c).dockerfile))

\* The decision taken from the pointer, without the Once.
secretsRegexpNotNil == conc.secretsRegexp.compiled

\* What secretsRegexpOnce.Do looks at to decide that the function has run.
secretsRegexpOnceDone == conc.done

InitConcurrent ==
    /\ dockerfile = <<>>
    /\ warnings = <<>>
    /\ pc = "idle"
    /\ idx = 0
    /\ parseRules = <<>>
    /\ results = <<>>
    /\ action = <<>>
    /\ \E dfs \in [Callers -> CallerDockerfiles] :
          conc = [done |-> FALSE,
                  m |-> 0,
                  secretsRegexp |-> NilRegexp,
                  secretsAllowRegexp |-> NilRegexp,
                  writes |-> 0,
                  lateWrites |-> 0,
                  callers |-> [c \in Callers |->
                      [pc |-> "loop", dockerfile |-> dfs[c], k |-> 1,
                       deny |-> NilRegexp, allow |-> NilRegexp, rules |-> <<>>,
                       slow |-> FALSE, earlyRead |-> FALSE]]]

Goto(c, label) == [conc EXCEPT !.callers[c].pc = label]
Pipeline == <<dockerfile, warnings, pc, idx, parseRules, results, action>>

\* The loop of checkSecretsInArgOrEnv: the next name, or the return.
CallIsSensitive(c) ==
    /\ Caller(c).pc = "loop"
    /\ conc' = Goto(c, IF Caller(c).k <= Len(ChecksOf(c)) THEN "once" ELSE "done")
    /\ UNCHANGED Pipeline

\* Once.Do: the atomic load of done.
OnceDo(c) ==
    /\ Caller(c).pc = "once"
    /\ conc' = IF secretsRegexpOnceDone
               THEN Goto(c, "return")
               ELSE [conc EXCEPT !.callers[c].pc = "lock", !.callers[c].slow = TRUE]
    /\ UNCHANGED Pipeline

\* doSlow: o.m.Lock().
OnceLock(c) ==
    /\ Caller(c).pc = "lock"
    /\ conc.m = 0
    /\ conc' = [conc EXCEPT !.m = c, !.callers[c].pc = "doSlow"]
    /\ UNCHANGED Pipeline

\* doSlow: the second look at done, under the mutex.
OnceCheck(c) ==
    /\ Caller(c).pc = "doSlow"
    /\ conc' = Goto(c, IF secretsRegexpOnceDone THEN "unlock" ELSE "deny")
    /\ UNCHANGED Pipeline

\* secretsRegexp = regexp.MustCompile(pattern).
CompileSecretsRegexp(c) ==
    /\ Caller(c).pc = "deny"
    /\ conc' = [conc EXCEPT !.secretsRegexp = MustCompile(secretTokens),
                            !.writes = @ + 1,
                            !.lateWrites = @ + (IF conc.done THEN 1 ELSE 0),
                            !.callers[c].pc = "allow"]
    /\ UNCHANGED Pipeline

\* secretsAllowRegexp = regexp.MustCompile(allowPattern).
CompileSecretsAllowRegexp(c) ==
    /\ Caller(c).pc = "allow"
    /\ conc' = [conc EXCEPT !.secretsAllowRegexp = MustCompile(allowTokens),
                            !.writes = @ + 1,
                            !.lateWrites = @ + (IF conc.done THEN 1 ELSE 0),
                            !.callers[c].pc = "store"]
    /\ UNCHANGED Pipeline

\* doSlow: the deferred o.done.Store(1).
OnceStore(c) ==
    /\ Caller(c).pc = "store"
    /\ conc' = [conc EXCEPT !.done = TRUE, !.callers[c].pc = "unlock"]
    /\ UNCHANGED Pipeline

\* doSlow: the deferred o.m.Unlock().
OnceUnlock(c) ==
    /\ Caller(c).pc = "unlock"
    /\ conc' = [conc EXCEPT !.m = 0, !.callers[c].pc = "return"]
    /\ UNCHANGED Pipeline

\* return secretsRegexp, secretsAllowRegexp.
getSecretsRegex(c) ==
    /\ Caller(c).pc = "return"
    /\ conc' = [conc EXCEPT !.callers[c].deny = conc.secretsRegexp,
                            !.callers[c].allow = conc.secretsAllowRegexp,
                            !.callers[c].earlyRead = @ \/ ~conc.done,
                            !.callers[c].pc = "match"]
    /\ UNCHANGED Pipeline

\* deny.MatchString(varName) && !allow.MatchString(varName), and the rule
\* the loop appends; MatchString on a nil *Regexp panics.
MatchString(c) ==
    /\ Caller(c).pc = "match"
    /\ LET check == ChecksOf(c)[Caller(c).k]
           deny == Caller(c).deny
           allow == Caller(c).allow
       IN  conc' =
               IF ~deny.compiled \/ ~allow.compiled
               THEN Goto(c, "panic")
               ELSE [conc EXCEPT
                        !.callers[c].rules =
                            IF /\ MatchesTokens(check.varName, deny.tokens)
                               /\ ~MatchesTokens(check.varName, allow.tokens)
                            THEN Append(@, secretsUsedRule(check.child, check.varName))
                            ELSE @,
                        !.callers[c].k = @ + 1,
                        !.callers[c].pc = "loop"]
    /\ UNCHANGED Pipeline

NextConcurrent ==
    \E c \in Callers :
        \/ CallIsSensitive(c)
        \/ OnceDo(c)
        \/ OnceLock(c)
        \/ OnceCheck(c)
        \/ CompileSecretsRegexp(c)
        \/ CompileSecretsAllowRegexp(c)
        \/ OnceStore(c)
        \/ OnceUnlock(c)
        \/ getSecretsRegex(c)
        \/ MatchString(c)

SpecConcurrent == InitConcurrent /\ [][NextConcurrent]_vars

---------------------------------------------------------------------------
(* Claims about the score.                                                 *)

Returned == pc = "done" /\ results # <<>> /\ ~Last(results).Err
CountSeverity(rules, sev) == Cardinality({k \in 1..Len(rules) : rules[k].Severity = sev})
HasFatal(rules) == \E k \in 1..Len(rules) : rules[k].Severity = SeverityFatal
Max(a, b) == IF a >= b THEN a ELSE b

\* C1: for a returned rule list without a fatal rule the score is
\* max(0, 100 - 15*E - 5*W), E and W the numbers of error and warning rules.
C1_ScoreFormula ==
    Returned /\ ~HasFatal(Last(results).Rules) =>
        Last(results).Score =
            Max(0, 100 - 15 * CountSeverity(Last(results).Rules, SeverityError)
                       - 5 * CountSeverity(Last(results).Rules, SeverityWarning))

\* A returned list without fatal rules whose penalties exceed 100, with
\* errors and warnings both present: the score is clamped to 0.
C1_Witness ==
     (/\ Returned
      /\ ~HasFatal(Last(results).Rules)
      /\ CountSeverity(Last(results).Rules, SeverityError) >= 1
      /\ CountSeverity(Last(results).Rules, SeverityWarning) >= 1
      /\ 15 * CountSeverity(Last(results).Rules, SeverityError)
           + 5 * CountSeverity(Last(results).Rules, SeverityWarning) > 100
      /\ Last(results).Score = 0)

\* C2: a fatal rule anywhere in the returned list forces the score to 0.
C2_FatalForcesZero ==
    Returned /\ HasFatal(Last(results).Rules) => Last(results).Score = 0

\* A returned list whose only fatal rule is its last one, after an error
\* and a warning, scored 0.
C2_Witness ==
     (/\ Returned
      /\ Len(Last(results).Rules) = 3
      /\ Last(results).Rules[1].Severity = SeverityError
      /\ Last(results).Rules[2].Severity = SeverityWarning
      /\ Last(results).Rules[3].Severity = SeverityFatal
      /\ Last(results).Score = 0)

---------------------------------------------------------------------------
(* Claims about the returned rules.                                        *)

ReturnedRules == Last(results).Rules
Codes(rules) == [k \in 1..Len(rules) |-> rules[k].Code]

\* C3: every rule of a returned Result has severity fatal, error or warning.
C3_SeverityClosed ==
    Returned =>
        \A k \in 1..Len(ReturnedRules) :
            ReturnedRules[k].Severity \in {SeverityFatal, SeverityError, SeverityWarning}

\* C4: every returned UndefinedVar rule has severity error, wherever the
\* undefined reference occurs.
C4_UndefinedVarIsError ==
    Returned =>
        \A k \in 1..Len(ReturnedRules) :
            ReturnedRules[k].Code = "UndefinedVar" =>
                ReturnedRules[k].Severity = SeverityError

\* C5: all calls of parse on the same Dockerfile return the same Result.
C5_Deterministic ==
    \A i, j \in 1..Len(results) : results[i] = results[j]

\* The codes of the cross-instruction passes, in the order of their blocks.
PassCodes ==
    <<"ParserWarning", "NoEmptyContinuation", "ConsistentInstructionCasing",
      "DuplicateStageName", "FromPlatformFlagConstDisallowed",
      "JSONArgsRecommended", "UndefinedArgInFrom", "UndefinedVar",
      "MultipleInstructionsDisallowed", "SecretsUsedInArgOrEnv",
      "InvalidDefaultArgInFrom">>
IsPassCode(code) == \E k \in 1..Len(PassCodes) : PassCodes[k] = code
\* The block a rule belongs to: the number of its pass, or one more for a
\* rule of a per-instruction validator.
Block(code) ==
    IF IsPassCode(code)
    THEN CHOOSE k \in 1..Len(PassCodes) : PassCodes[k] = code
    ELSE Len(PassCodes) + 1

\* C6: in a returned list the blocks of the passes appear in the fixed order
\* and before every validator rule; the two-CMD example returns two
\* JSONArgsRecommended rules and then MultipleInstructionsDisallowed, score 75.
C6_PassBlocksOrdered ==
    /\ Returned =>
          \A i, j \in 1..Len(ReturnedRules) :
              i < j => Block(ReturnedRules[i].Code) <= Block(ReturnedRules[j].Code)
    /\ Returned /\ dockerfile = TwoCmdExample /\ warnings = <<>> =>
          /\ Codes(ReturnedRules) =
                <<"JSONArgsRecommended", "JSONArgsRecommended",
                  "MultipleInstructionsDisallowed">>
          /\ Last(results).Score = 75

\* A returned list holding rules of three different passes and then a
\* validator rule.
C6_Witness ==
     (/\ Returned
      /\ \E i, j, k, l \in 1..Len(ReturnedRules) :
            /\ i < j /\ j < k /\ k < l
            /\ Block(ReturnedRules[i].Code) < Block(ReturnedRules[j].Code)
            /\ Block(ReturnedRules[j].Code) < Block(ReturnedRules[k].Code)
            /\ Block(ReturnedRules[k].Code) < Block(ReturnedRules[l].Code)
            /\ ~IsPassCode(ReturnedRules[l].Code))

\* C7: within the block of one pass the rules follow the order of the
\* instructions they are attached to (DuplicateStageName rules in FROM order).
C7_TraversalOrder ==
    Returned =>
        \A i, j \in 1..Len(ReturnedRules) :
            /\ i < j
            /\ IsPassCode(ReturnedRules[i].Code)
            /\ ReturnedRules[i].Code = ReturnedRules[j].Code
            => ReturnedRules[i].StartLine <= ReturnedRules[j].StartLine

NamedCodes ==
    {"ArgInvalidFormat", "CmdInvalidExecForm",
     "ConsistentInstructionCasing", "DuplicateStageName",
     "EntrypointInvalidExecForm", "EnvInvalidFormat",
     "EnvMissingKeyValue", "ExposeInvalidFormat",
     "ExposeInvalidProtocol", "ExposePortOutOfRange",
     "ExposeProtoCasing", "FromAsCasing", "FromInvalidImageReference",
     "FromInvalidPlatform", "FromInvalidStageName", "FromMissingImage",
     "FromPlatformFlagConstDisallowed", "HealthcheckMissingCmd",
     "InvalidDefaultArgInFrom", "JSONArgsRecommended",
     "LabelInvalidFormat", "LabelMissingKeyValue",
     "LegacyKeyValueFormat", "MaintainerDeprecated",
     "MaintainerMissingName", "MultipleInstructionsDisallowed",
     "OnbuildMissingInstruction", "RedundantTargetPlatform",
     "ReservedStageName", "RunInvalidExecForm", "RunInvalidMountFlag",
     "RunInvalidNetworkFlag", "RunInvalidSecurityFlag",
     "RunMissingCommand", "SecretsUsedInArgOrEnv",
     "ShellInvalidJsonForm", "ShellRequiresJsonForm", "StageNameCasing",
     "StopsignalMissingValue", "UndefinedArgInFrom", "UndefinedVar",
     "UserInvalidFormat", "UserMissingValue", "VolumeInvalidJsonForm",
     "VolumeMissingPath", "WorkdirRelativePath", "CopyMissingArguments",
     "AddMissingArguments", "CopyInvalidFlag", "AddInvalidFlag"}
        \cup {"InvalidInstruction", "UnrecognizedInstruction",
              "NoEmptyContinuation", "ParserWarning"}
\* The codes of the validators' missing-argument rules that are not among
\* the named ones.
MissingCodes ==
    {"CmdMissingCommand", "EntrypointMissingCommand", "ArgMissingName",
     "ShellMissingConfig"}

\* C9 as stated: every returned code is one of the named codes.
C9_NamedCodesOnly ==
    Returned =>
        \A k \in 1..Len(ReturnedRules) : ReturnedRules[k].Code \in NamedCodes

\* C9: every returned code is one of the named codes or one of
\* CmdMissingCommand, EntrypointMissingCommand, ArgMissingName and
\* ShellMissingConfig.
C9_CodesClosed ==
    Returned =>
        \A k \in 1..Len(ReturnedRules) :
            ReturnedRules[k].Code \in NamedCodes \cup MissingCodes

\* A returned list holding a named code and a code that is not named.
C9_Witness ==
     (/\ Returned
      /\ \E k \in 1..Len(ReturnedRules) : ReturnedRules[k].Code \in MissingCodes
      /\ \E k \in 1..Len(ReturnedRules) : ReturnedRules[k].Code \in NamedCodes)

\* The recognised instruction keywords.
RecognisedKeywords ==
    {<<"F","R","O","M">>,
     <<"W","O","R","K","D","I","R">>,
     <<"R","U","N">>,
     <<"E","X","P","O","S","E">>,
     <<"C","M","D">>,
     <<"E","N","T","R","Y","P","O","I","N","T">>,
     <<"S","H","E","L","L">>,
     <<"V","O","L","U","M","E">>,
     <<"U","S","E","R">>,
     <<"L","A","B","E","L">>,
     <<"E","N","V">>,
     <<"A","R","G">>,
     <<"C","O","P","Y">>,
     <<"A","D","D">>,
     <<"H","E","A","L","T","H","C","H","E","C","K">>,
     <<"O","N","B","U","I","L","D">>,
     <<"S","T","O","P","S","I","G","N","A","L">>,
     <<"M","A","I","N","T","A","I","N","E","R">>}
IsRecognised(child) == ToUpper(child.Value) \in RecognisedKeywords
\* The positions of the returned UnrecognizedInstruction rules on a node.
UnrecognizedOn(child) ==
    {k \in 1..Len(ReturnedRules) :
        /\ ReturnedRules[k].Code = "UnrecognizedInstruction"
        /\ ReturnedRules[k].StartLine = child.StartLine
        /\ ReturnedRules[k].EndLine = child.EndLine}

---------------------------------------------------------------------------
(* Claims about the cross-instruction passes.                              *)

IsFrom(child) == ToUpper(child.Value) = <<"F","R","O","M">>
\* The instructions before the n-th one that are FROM instructions.
FromsBefore(n) == {m \in 1..(n - 1) : IsFrom(AST[m])}
\* The position of the FROM that opens the stage of the n-th instruction,
\* 0 before the first FROM.
StageStart(n) ==
    IF FromsBefore(n) = {} THEN 0
    ELSE CHOOSE m \in FromsBefore(n) : \A h \in FromsBefore(n) : h <= m
\* The positions of the returned rules with a code on a node.
RulesOn(code, child) ==
    {k \in 1..Len(ReturnedRules) :
        /\ ReturnedRules[k].Code = code
        /\ ReturnedRules[k].StartLine = child.StartLine
        /\ ReturnedRules[k].EndLine = child.EndLine}
OncePerStage ==
    {<<"C","M","D">>, <<"E","N","T","R","Y","P","O","I","N","T">>,
     <<"H","E","A","L","T","H","C","H","E","C","K">>}
\* The n-th instruction is a CMD, ENTRYPOINT or HEALTHCHECK inside a stage
\* that has an earlier instruction of the same kind in the same stage.
IsRepeated(n) ==
    /\ ~IsFrom(AST[n])
    /\ ToUpper(AST[n].Value) \in OncePerStage
    /\ StageStart(n) > 0
    /\ \E m \in (StageStart(n) + 1)..(n - 1) :
           ToUpper(AST[m].Value) = ToUpper(AST[n].Value)

\* C11: in a stage, the first CMD, ENTRYPOINT or HEALTHCHECK (in any letter
\* case) is not flagged and every later one of the same kind has exactly one
\* MultipleInstructionsDisallowed rule, of severity error; the counts restart
\* at every FROM and nothing before the first FROM is flagged or counted.
C11_MultipleInstructions ==
    Returned =>
        \A n \in 1..Len(AST) :
            /\ Cardinality(RulesOn("MultipleInstructionsDisallowed", AST[n]))
                   = IF IsRepeated(n) THEN 1 ELSE 0
            /\ \A k \in RulesOn("MultipleInstructionsDisallowed", AST[n]) :
                   ReturnedRules[k].Severity = SeverityError

\* A Dockerfile with a CMD before the first FROM and a stage with a CMD and a
\* second CMD in another letter case: only the last one is flagged.
C11_Witness ==
     (/\ Returned
      /\ Len(AST) = 4
      /\ ~IsFrom(AST[1]) /\ ToUpper(AST[1].Value) = <<"C","M","D">>
      /\ IsFrom(AST[2])
      /\ ToUpper(AST[3].Value) = <<"C","M","D">>
      /\ ToUpper(AST[4].Value) = <<"C","M","D">>
      /\ AST[3].Value # AST[4].Value
      /\ RulesOn("MultipleInstructionsDisallowed", AST[1]) = {}
      /\ RulesOn("MultipleInstructionsDisallowed", AST[3]) = {}
      /\ Cardinality(RulesOn("MultipleInstructionsDisallowed", AST[4])) = 1)

IsArg(child) == ToUpper(child.Value) = <<"A","R","G">>
IsEnv(child) == ToUpper(child.Value) = <<"E","N","V">>
\* The part of an ARG token before its "=", or the whole token.
ArgTokenName(token) ==
    IF Contains(token, <<"=">>) THEN SplitN2(token, "=")[1] ELSE token
\* The names an ARG or ENV instruction declares; an ENV pair is the three
\* argument nodes key, value and separator.
DeclaredBy(child) ==
    IF IsArg(child)
    THEN {ArgTokenName(child.Next[k].Value) : k \in 1..Len(child.Next)}
    ELSE IF IsEnv(child)
    THEN {child.Next[k].Value : k \in {h \in 1..Len(child.Next) : h % 3 = 1}}
    ELSE {}
\* The texts in which an ARG or ENV instruction may refer to variables: the
\* default value of every ARG token and the value of every ENV pair.
ValuesOf(child) ==
    IF IsArg(child)
    THEN {SplitN2(child.Next[k].Value, "=")[2] :
             k \in {h \in 1..Len(child.Next) : Contains(child.Next[h].Value, <<"=">>)}}
    ELSE IF IsEnv(child)
    THEN {child.Next[k].Value : k \in {h \in 1..Len(child.Next) : h % 3 = 2}}
    ELSE {}
\* The variables an instruction other than ARG and ENV refers to in its
\* arguments.
ArgumentRefsOf(child) ==
    UNION {{extractVariableReferences(child.Next[k].Value)[i] :
               i \in 1..Len(extractVariableReferences(child.Next[k].Value))} :
           k \in 1..Len(child.Next)}
\* The variables referred to in the values of an ARG or ENV instruction.
ValueRefsOf(child) ==
    UNION {{extractVariableReferences(text)[i] :
               i \in 1..Len(extractVariableReferences(text))} :
           text \in ValuesOf(child)}
\* The ARG names declared before the first FROM.
GlobalDeclared ==
    UNION {DeclaredBy(AST[m]) :
              m \in {h \in 1..Len(AST) : FromsBefore(h) = {} /\ IsArg(AST[h])}}
\* The variables in scope at the n-th instruction, inside a stage.
InScope(n) ==
    GlobalDeclared \cup predefinedArgs
        \cup UNION {DeclaredBy(AST[m]) : m \in (StageStart(n) + 1)..(n - 1)}
\* The n-th instruction has an UndefinedVar rule for the variable.
ReportedUndefined(n, varName) ==
    \E k \in RulesOn("UndefinedVar", AST[n]) :
        ReturnedRules[k].Description = <<"Usage of undefined variable '$%s'", varName>>
\* The n-th instruction is inside a stage and all its arguments are checked.
IsCheckedUse(n) ==
    /\ StageStart(n) > 0
    /\ ToUpper(AST[n].Value) \notin
           {<<"F","R","O","M">>, <<"A","R","G">>, <<"E","N","V">>, <<"R","U","N">>,
            <<"C","M","D">>, <<"E","N","T","R","Y","P","O","I","N","T">>}

\* C12: a variable used by an instruction of a stage is reported as
\* UndefinedVar exactly when it is neither a global ARG, nor a predefined
\* ARG, nor declared by an earlier ARG or ENV of the same stage: the
\* declarations of earlier stages are out of scope.
C12_ScopeResetAtFrom ==
    Returned =>
        \A n \in 1..Len(AST) :
            IsCheckedUse(n) =>
                \A varName \in ArgumentRefsOf(AST[n]) :
                    ReportedUndefined(n, varName) <=> varName \notin InScope(n)

\* Two stages: the first declares a variable, the second uses it together
\* with a predefined ARG; the use of the first is reported, the use of the
\* predefined ARG is not.
C12_Witness ==
     (/\ Returned
      /\ Len(AST) = 4
      /\ IsFrom(AST[1]) /\ IsArg(AST[2]) /\ IsFrom(AST[3]) /\ IsCheckedUse(4)
      /\ \E varName \in DeclaredBy(AST[2]) \cap ArgumentRefsOf(AST[4]) :
             ReportedUndefined(4, varName)
      /\ \E varName \in predefinedArgs \cap ArgumentRefsOf(AST[4]) :
             ~ReportedUndefined(4, varName))

\* The stage name a FROM declares, lower-cased; empty without AS.
StageNameOf(child) == ToLower(extractFromComponents(child).stageName)
\* The n-th instruction is a FROM whose stage name is also declared, in any
\* letter case, by another FROM.
IsDuplicateStage(n) ==
    /\ IsFrom(AST[n])
    /\ StageNameOf(AST[n]) # <<>>
    /\ \E m \in 1..Len(AST) :
           m # n /\ IsFrom(AST[m]) /\ StageNameOf(AST[m]) = StageNameOf(AST[n])

\* C13: every FROM whose stage name is declared by two or more FROMs,
\* compared case-insensitively, has exactly one DuplicateStageName rule, of
\* severity error; a FROM whose name is declared once, or that has no stage
\* name, has none.
C13_DuplicateStageNames ==
    Returned =>
        \A n \in 1..Len(AST) :
            /\ Cardinality(RulesOn("DuplicateStageName", AST[n]))
                   = IF IsDuplicateStage(n) THEN 1 ELSE 0
            /\ \A k \in RulesOn("DuplicateStageName", AST[n]) :
                   ReturnedRules[k].Severity = SeverityError

\* A stage name declared three times, in two letter cases, and a fourth FROM
\* that is not a duplicate: three DuplicateStageName rules in all.
C13_Witness ==
     (/\ Returned
      /\ Len(AST) = 4
      /\ Cardinality({n \in 1..4 : IsDuplicateStage(n)}) = 3
      /\ \E m, n \in 1..4 :
             /\ IsDuplicateStage(m) /\ IsDuplicateStage(n)
             /\ extractFromComponents(AST[m]).stageName
                    # extractFromComponents(AST[n]).stageName
      /\ Cardinality({k \in 1..Len(ReturnedRules) :
                         ReturnedRules[k].Code = "DuplicateStageName"}) = 3)

\* C14 as stated: FROM alpine AS build / FROM alpine AS BUILD returns
\* two DuplicateStageName rules and nothing else, score 70.
C14_BuildExampleTwoRules ==
    Returned /\ dockerfile = BuildExample /\ warnings = <<>> =>
        /\ Codes(ReturnedRules) = <<"DuplicateStageName", "DuplicateStageName">>
        /\ Last(results).Score = 70

\* C14: FROM alpine AS build / FROM alpine AS BUILD returns two
\* DuplicateStageName rules and then the StageNameCasing warning of the
\* second FROM, score 65.
C14_BuildExample ==
    Returned /\ dockerfile = BuildExample /\ warnings = <<>> =>
        /\ Codes(ReturnedRules) =
              <<"DuplicateStageName", "DuplicateStageName", "StageNameCasing">>
        /\ Last(results).Score = 65

\* The Result of the example: a DuplicateStageName error on each FROM and a
\* StageNameCasing warning on the second.
C14_Witness ==
     (/\ Returned /\ dockerfile = BuildExample /\ warnings = <<>>
      /\ Len(ReturnedRules) = 3
      /\ RulesOn("DuplicateStageName", AST[1]) = {1}
      /\ RulesOn("DuplicateStageName", AST[2]) = {2}
      /\ RulesOn("StageNameCasing", AST[2]) = {3}
      /\ ReturnedRules[3].Severity = SeverityWarning)

---------------------------------------------------------------------------
(* Claims about the workflow wrapper.                                      *)

\* The wrapper has ended and the analyzer returned a Result.
WrapperEnded == action.pc = "exited" /\ action.exists
Analyzed_ok == results # <<>> /\ ~Last(results).Err
\* The value the wrapper wrote for an output.
HasOutput(name) ==
    \E k \in 1..Len(action.GITHUB_OUTPUT) : action.GITHUB_OUTPUT[k].name = name
OutputValue(name) ==
    action.GITHUB_OUTPUT[CHOOSE k \in 1..Len(action.GITHUB_OUTPUT) :
                             action.GITHUB_OUTPUT[k].name = name].value
FoundErrors == CountSeverity(Last(results).Rules, SeverityError)
FoundWarnings == CountSeverity(Last(results).Rules, SeverityWarning)

\* C15: the wrapper ends with result=failed and a non-zero exit code whenever
\* fail-on-error is set and the analysis found an error, or fail-on-warning
\* is set and it found a warning, or its score is below minimum-score.
C15_FailsOnCondition ==
    (/\ WrapperEnded
     /\ Analyzed_ok
     /\ \/ action.FAIL_ON_ERROR /\ FoundErrors >= 1
        \/ action.FAIL_ON_WARNING /\ FoundWarnings >= 1
        \/ Last(results).Score < IntegerOf(action.MINIMUM_SCORE))
    => /\ HasOutput("result")
       /\ OutputValue("result") = Failed
       /\ action.exit # 0

\* C16: the outputs score, errors and warnings are the score the analyzer
\* computed and the numbers of error and warning rules it found.
C16_OutputsFaithful ==
    WrapperEnded /\ Analyzed_ok =>
        /\ HasOutput("score") /\ OutputValue("score") = <<Itoa(Last(results).Score)>>
        /\ HasOutput("errors") /\ OutputValue("errors") = <<Itoa(FoundErrors)>>
        /\ HasOutput("warnings") /\ OutputValue("warnings") = <<Itoa(FoundWarnings)>>

---------------------------------------------------------------------------
(* Claims about concurrent callers.                                        *)

\* C17: under every interleaving of callers the shared regular expressions
\* are written exactly once each, no caller reads them before the
\* initialisation has completed, they are not written after it, no caller
\* panics, and a caller that has finished returns the rules
\* checkSecretsInArgOrEnv gives for its Dockerfile alone.
C17_ConcurrentSafe ==
    /\ conc.writes <= 2
    /\ conc.lateWrites = 0
    /\ conc.done => /\ conc.writes = 2
                    /\ conc.secretsRegexp = MustCompile(secretTokens)
                    /\ conc.secretsAllowRegexp = MustCompile(allowTokens)
    /\ \A c \in Callers :
        /\ ~Caller(c).earlyRead
        /\ Caller(c).pc # "panic"
        /\ Caller(c).pc \in {"match", "done"} \/ Caller(c).k > 1 => conc.done
        /\ Caller(c).pc = "done" =>
               Caller(c).rules = checkSecretsInArgOrEnv(Children(Caller(c).dockerfile))

\* Every caller has finished, two of them met in Once.Do before the
\* initialisation had completed, and one of them reported a secret.
C17_Witness ==
    /\ \A c \in Callers : Caller(c).pc = "done"
    /\ \E c, d \in Callers : c # d /\ Caller(c).slow /\ Caller(d).slow
    /\ \E c \in Callers : Caller(c).rules # <<>>
    /\ \E c \in Callers : Len(ChecksOf(c)) > Len(Caller(c).rules)

---------------------------------------------------------------------------
(* Claims about constant platforms.                                        *)

\* The n-th instruction is a FROM whose --platform value is not empty and
\* does not start with "$".
HasConstPlatform(n) ==
    /\ IsFrom(AST[n])
    /\ extractFromComponents(AST[n]).platformFlag # <<>>
    /\ extractFromComponents(AST[n]).platformFlag[1] # "$"
\* The stage prefix: the part before the first "_" or "-", or all of it.
PrefixOf(name) ==
    IF \E k \in 1..Len(name) : name[k] \in {"_", "-"}
    THEN SubSeq(name, 1, (CHOOSE k \in 1..Len(name) :
                             /\ name[k] \in {"_", "-"}
                             /\ \A j \in 1..(k - 1) : name[j] \notin {"_", "-"}) - 1)
    ELSE name
\* The image reference of the m-th instruction refers to the stage of the
\* n-th one: it equals the stage name, or begins with the stage's prefix,
\* letter case apart.
RefersTo(m, n) ==
    /\ IsFrom(AST[m])
    /\ extractFromComponents(AST[m]).imageRef # <<>>
    /\ \/ ToLower(extractFromComponents(AST[m]).imageRef) = StageNameOf(AST[n])
       \/ HasPrefix(ToLower(extractFromComponents(AST[m]).imageRef),
                    PrefixOf(StageNameOf(AST[n])))
ReferencedByAnother(n) ==
    /\ StageNameOf(AST[n]) # <<>>
    /\ \E m \in 1..Len(AST) : m # n /\ RefersTo(m, n)
Flagged(n) == RulesOn("FromPlatformFlagConstDisallowed", AST[n]) # {}

\* C18: a FROM with a constant platform is flagged
\* FromPlatformFlagConstDisallowed whenever it has no stage name or no other
\* FROM refers to its stage; its own image reference does not count.
C18_FlaggedUnlessReferenced ==
    Returned =>
        \A n \in 1..Len(AST) :
            HasConstPlatform(n) /\ ~ReferencedByAnother(n) => Flagged(n)

\* C19: a FROM with a constant platform and a stage name is not flagged
\* whenever another FROM's image reference equals the name or begins with its
\* prefix, whatever other stage names that reference also matches.
C19_NotFlaggedWhenReferenced ==
    Returned =>
        \A n \in 1..Len(AST) :
            HasConstPlatform(n) /\ ReferencedByAnother(n) => ~Flagged(n)

---------------------------------------------------------------------------
(* Claims about the values of ARG and ENV.                                 *)

\* C20: inside a stage, every variable referred to in the default value of
\* any token of an ARG or in the value of any ENV pair is reported as
\* UndefinedVar unless it was declared before that instruction; a
\* declaration by the instruction itself does not count.
C20_ValuesCheckedBeforeDeclared ==
    Returned =>
        \A n \in 1..Len(AST) :
            StageStart(n) > 0 /\ (IsArg(AST[n]) \/ IsEnv(AST[n])) =>
                \A varName \in ValueRefsOf(AST[n]) :
                    varName \notin InScope(n) => ReportedUndefined(n, varName)

---------------------------------------------------------------------------
(* Claims about variables in FROM.                                         *)

\* The length of the identifier [A-Za-z_][A-Za-z0-9_]* that starts at p.
RECURSIVE NameCharsFrom(_, _)
NameCharsFrom(s, p) ==
    IF p <= Len(s) /\ (s[p] \in Letters \/ s[p] \in Digits \/ s[p] = "_")
    THEN 1 + NameCharsFrom(s, p + 1) ELSE 0
NameLenAt(s, p) ==
    IF p <= Len(s) /\ (s[p] \in Letters \/ s[p] = "_") THEN NameCharsFrom(s, p) ELSE 0
\* The names referred to as $NAME or ${NAME} from position p on, in the
\* order of their positions in the text.
RECURSIVE RefsByPosition(_, _)
RefsByPosition(s, p) ==
    IF p > Len(s) THEN <<>>
    ELSE IF s[p] # "$" THEN RefsByPosition(s, p + 1)
    ELSE IF /\ p + 1 <= Len(s) /\ s[p + 1] = "{"
            /\ NameLenAt(s, p + 2) > 0
            /\ p + 2 + NameLenAt(s, p + 2) <= Len(s)
            /\ s[p + 2 + NameLenAt(s, p + 2)] = "}"
    THEN <<SubSeq(s, p + 2, p + 1 + NameLenAt(s, p + 2))>>
             \o RefsByPosition(s, p + 3 + NameLenAt(s, p + 2))
    ELSE IF NameLenAt(s, p + 1) > 0
    THEN <<SubSeq(s, p + 1, p + NameLenAt(s, p + 1))>>
             \o RefsByPosition(s, p + 1 + NameLenAt(s, p + 1))
    ELSE RefsByPosition(s, p + 1)
\* The distinct names of a sequence in the order of their first occurrence.
RECURSIVE FirstOccurrences(_, _)
FirstOccurrences(s, seen) ==
    IF s = <<>> THEN <<>>
    ELSE IF Head(s) \in seen THEN FirstOccurrences(Tail(s), seen)
    ELSE <<Head(s)>> \o FirstOccurrences(Tail(s), seen \cup {Head(s)})
\* The names a FROM must be reported for, in order.
UndeclaredInFrom(child) ==
    SelectSeq(FirstOccurrences(RefsByPosition(extractFromComponents(child).imageRef, 1), {}),
              LAMBDA name : name \notin GlobalDeclared /\ name \notin predefinedArgs)
\* The UndefinedArgInFrom rules of a node, in the order of the returned list.
UndefinedArgRules(child) ==
    SelectSeq(ReturnedRules, LAMBDA rule :
        /\ rule.Code = "UndefinedArgInFrom"
        /\ rule.StartLine = child.StartLine
        /\ rule.EndLine = child.EndLine)

\* C21: every FROM has exactly one UndefinedArgInFrom error for each
\* distinct variable of its image reference that is neither a global ARG
\* nor a predefined ARG, in the order in which the names first appear in
\* the image reference, and none for any other name.
C21_UndefinedArgInFrom ==
    Returned =>
        \A n \in 1..Len(AST) :
            IsFrom(AST[n]) =>
                /\ [k \in 1..Len(UndefinedArgRules(AST[n])) |->
                        UndefinedArgRules(AST[n])[k].Description]
                     = [k \in 1..Len(UndeclaredInFrom(AST[n])) |->
                           <<"FROM argument '%s' is not declared", UndeclaredInFrom(AST[n])[k]>>]
                /\ \A k \in 1..Len(UndefinedArgRules(AST[n])) :
                       UndefinedArgRules(AST[n])[k].Severity = SeverityError

\* The names declared without a default value by the ARGs before the first
\* FROM.
GlobalWithoutDefault ==
    UNION {{AST[m].Next[k].Value :
               k \in {h \in 1..Len(AST[m].Next) : ~Contains(AST[m].Next[h].Value, <<"=">>)}} :
           m \in {h \in 1..Len(AST) : FromsBefore(h) = {} /\ IsArg(AST[h])}}
\* A use of the variable as $V or ${V} starts at position p of the text;
\* the value is the length of the use, 0 when there is none.
UseLenAt(text, varName, p) ==
    IF /\ HasPrefix(SubSeq(text, p, Len(text)), <<"$", "{">> \o varName \o <<"}">>)
    THEN Len(varName) + 3
    ELSE IF /\ HasPrefix(SubSeq(text, p, Len(text)), <<"$">> \o varName)
            /\ NameCharsFrom(text, p + 1) = Len(varName)
    THEN Len(varName) + 1
    ELSE 0
\* The use at position p leaves the image reference invalid when the
\* variable is empty.
BreaksImageAt(text, varName, p) ==
    LET q == p + UseLenAt(text, varName, p)
        atEnd == q > Len(text)
    IN  /\ UseLenAt(text, varName, p) > 0
        /\ \/ p > 1 /\ text[p - 1] \in {":", "@"}
           \/ p = 1 /\ ~atEnd /\ text[q] \in {"/", ":", "@"}
           \/ p > 1 /\ text[p - 1] = "/" /\ (atEnd \/ text[q] \in {"/", ":", "@"})
BreaksImage(child, varName) ==
    \E p \in 1..Len(extractFromComponents(child).imageRef) :
        BreaksImageAt(extractFromComponents(child).imageRef, varName, p)
\* The n-th instruction has an InvalidDefaultArgInFrom rule for the use of
\* the variable in its image reference.
ReportedInvalidDefault(n, varName) ==
    \E k \in RulesOn("InvalidDefaultArgInFrom", AST[n]) :
        ReturnedRules[k].Description =
            <<"ARG '%s' has no default value and is used in FROM instruction. Provide a default value or use parameter expansion with fallback: ${%s:-default}",
              varName>>

\* C22: for a global ARG without a default and a FROM,
\* InvalidDefaultArgInFrom is emitted for the image reference exactly when
\* some use of $V or ${V} in it stands right after ":" or "@", or at the
\* start before "/", ":" or "@", or right after "/" and before the end, "/",
\* ":" or "@".
C22_InvalidDefaultArg ==
    Returned =>
        \A n \in 1..Len(AST) :
            IsFrom(AST[n]) =>
                \A varName \in GlobalWithoutDefault :
                    ReportedInvalidDefault(n, varName) <=> BreaksImage(AST[n], varName)

---------------------------------------------------------------------------
(* Claims about the per-instruction validators.                            *)

\* The name matches ^[A-Za-z_][A-Za-z0-9_]*$.
IsWellFormedName(name) == name # <<>> /\ NameLenAt(name, 1) = Len(name)
\* The n-th instruction is an ARG with several tokens of which at least
\* one has no "=".
IsLegacyArg(n) ==
    /\ IsArg(AST[n])
    /\ Len(AST[n].Next) >= 2
    /\ \E k \in 1..Len(AST[n].Next) : ~Contains(AST[n].Next[k].Value, <<"=">>)

\* C23: an ARG with several tokens of which at least one has no "=" still
\* gets ArgInvalidFormat when the name of some token is malformed.
C23_LegacyArgFormatChecked ==
    Returned =>
        \A n \in 1..Len(AST) :
            (/\ IsLegacyArg(n)
             /\ \E k \in 1..Len(AST[n].Next) :
                    ~IsWellFormedName(ArgTokenName(AST[n].Next[k].Value)))
            => RulesOn("ArgInvalidFormat", AST[n]) # {}

\* C23 as the code has it: an ARG with several tokens of which at least one
\* has no "=" gets the LegacyKeyValueFormat warning and never
\* ArgInvalidFormat, however its names are formed; any other ARG with
\* arguments and a malformed name gets ArgInvalidFormat.
C23_LegacyArgNotFormatChecked ==
    Returned =>
        \A n \in 1..Len(AST) :
            /\ IsLegacyArg(n) =>
                   /\ RulesOn("ArgInvalidFormat", AST[n]) = {}
                   /\ Cardinality(RulesOn("LegacyKeyValueFormat", AST[n])) = 1
                   /\ \A k \in RulesOn("LegacyKeyValueFormat", AST[n]) :
                          ReturnedRules[k].Severity = SeverityWarning
            /\ (/\ IsArg(AST[n]) /\ AST[n].HasNext /\ ~IsLegacyArg(n)
                /\ \E k \in 1..Len(AST[n].Next) :
                       ~IsWellFormedName(ArgTokenName(AST[n].Next[k].Value)))
               => Cardinality(RulesOn("ArgInvalidFormat", AST[n])) = 1

\* A legacy ARG with a malformed name has been analysed and carries the
\* warning.
C23_Witness ==
    /\ Returned
    /\ \E n \in 1..Len(AST) :
           /\ IsLegacyArg(n)
           /\ \E k \in 1..Len(AST[n].Next) :
                  ~IsWellFormedName(ArgTokenName(AST[n].Next[k].Value))
           /\ RulesOn("LegacyKeyValueFormat", AST[n]) # {}

---------------------------------------------------------------------------
(* Claims about empty continuation lines.                                  *)

\* The physical lines of the Dockerfile.
FileLines == ContentLines(dockerfile)

\* C24: every NoEmptyContinuation rule starts on the first line of the
\* instruction that contains the backslash continuation and ends on the
\* empty line that follows the backslash, wherever the instruction stands.
C24_EmptyContinuationSpan ==
    Returned =>
        \A k \in 1..Len(ReturnedRules) :
            ReturnedRules[k].Code = "NoEmptyContinuation" =>
                \E n \in 1..Len(AST) :
                    /\ ReturnedRules[k].StartLine = AST[n].StartLine
                    /\ ReturnedRules[k].EndLine > AST[n].StartLine
                    /\ ReturnedRules[k].EndLine <= AST[n].EndLine
                    /\ TrimSpace(FileLines[ReturnedRules[k].EndLine]) = <<>>
                    /\ EndsWithBackslash(FileLines[ReturnedRules[k].EndLine - 1])

---------------------------------------------------------------------------
(* Claims about shell and exec forms.                                      *)

\* The n-th instruction is a RUN, CMD or ENTRYPOINT inside a stage.
IsCommand(n) ==
    /\ StageStart(n) > 0
    /\ ToUpper(AST[n].Value) \in
           {<<"R","U","N">>, <<"C","M","D">>, <<"E","N","T","R","Y","P","O","I","N","T">>}
BeginsWithBracket(child) == HasPrefix(TrimmedOriginal(child), <<"[">>)
ParsedAsJson(child) == "json" \in child.Attributes

OneErrorOrWarnings(rules) ==
    \/ Len(rules) = 1 /\ rules[1].Severity \in {SeverityError, SeverityFatal}
    \/ \A k \in 1..Len(rules) : rules[k].Severity = SeverityWarning
\* The rules a step of the validator loop has added.
AddedRules == SubSeq(parseRules', Len(parseRules) + 1, Len(parseRules'))

\* C26: the validator of every instruction returns either exactly one
\* error and no warning, or warnings only: never two errors, never an error
\* together with a warning.
C26_OneErrorOrWarnings ==
    [][pc = "validate" /\ idx' = idx + 1 => OneErrorOrWarnings(AddedRules)]_vars

\* An analysed Dockerfile in which one validator returned a single error
\* and another one a warning.
C26_Witness ==
    /\ Returned
    /\ \E n \in 1..Len(AST) :
           /\ Len(insRules(AST[n])) = 1
           /\ insRules(AST[n])[1].Severity = SeverityError
           /\ \E k \in 1..Len(ReturnedRules) : ReturnedRules[k] = insRules(AST[n])[1]
    /\ \E n \in 1..Len(AST) :
           /\ insRules(AST[n]) # <<>>
           /\ \A k \in 1..Len(insRules(AST[n])) :
                  insRules(AST[n])[k].Severity = SeverityWarning

---------------------------------------------------------------------------
(* Claims about JSONArgsRecommended.                                       *)

HasShell == \E n \in 1..Len(AST) : ToUpper(AST[n].Value) = <<"S","H","E","L","L">>
\* The n-th instruction is a CMD or ENTRYPOINT.
IsCmdOrEntrypoint(n) ==
    ToUpper(AST[n].Value) \in {<<"C","M","D">>, <<"E","N","T","R","Y","P","O","I","N","T">>}
\* The text that follows the keyword on the instruction's line.
ArgumentRegion(child) ==
    TrimSpace(SubSeq(child.Original, Len(child.Value) + 1, Len(child.Original)))

\* C27, as the specification words it: with a SHELL instruction anywhere no
\* JSONArgsRecommended is emitted; without one, every CMD or ENTRYPOINT whose
\* argument region does not begin with "[" has exactly one JSONArgsRecommended
\* warning, and one whose region begins with "[" has none.
C27_JsonArgsRecommended ==
    Returned =>
        \A n \in 1..Len(AST) :
            IsCmdOrEntrypoint(n) =>
                Cardinality(RulesOn("JSONArgsRecommended", AST[n]))
                  = IF ~HasShell /\ ~HasPrefix(ArgumentRegion(AST[n]), <<"[">>)
                    THEN 1 ELSE 0

\* C27: with a SHELL instruction anywhere no JSONArgsRecommended is emitted;
\* without one, every CMD or ENTRYPOINT whose argument region is not empty
\* and does not begin with "[" has exactly one JSONArgsRecommended warning;
\* a CMD or ENTRYPOINT whose region is empty or begins with "[", and every
\* other instruction, has none.
C27_JsonArgsNonEmpty ==
    Returned =>
        \A n \in 1..Len(AST) :
            /\ Cardinality(RulesOn("JSONArgsRecommended", AST[n]))
                 = IF /\ ~HasShell
                      /\ IsCmdOrEntrypoint(n)
                      /\ ArgumentRegion(AST[n]) # <<>>
                      /\ ~HasPrefix(ArgumentRegion(AST[n]), <<"[">>)
                   THEN 1 ELSE 0
            /\ \A k \in RulesOn("JSONArgsRecommended", AST[n]) :
                   ReturnedRules[k].Severity = SeverityWarning

C27_Witness ==
    /\ Returned
    /\ ~HasShell
    /\ \E n \in 1..Len(AST) :
           /\ IsCmdOrEntrypoint(n)
           /\ ArgumentRegion(AST[n]) # <<>>
           /\ Cardinality(RulesOn("JSONArgsRecommended", AST[n])) = 1
    /\ \E n \in 1..Len(AST) :
           /\ IsCmdOrEntrypoint(n)
           /\ ArgumentRegion(AST[n]) = <<>>
           /\ RulesOn("JSONArgsRecommended", AST[n]) = {}

---------------------------------------------------------------------------
(* Claims about ConsistentInstructionCasing.                               *)

\* A keyword without a lowercase letter, and one without an uppercase letter.
PureUpper(n) == \A i \in 1..Len(AST[n].Value) : AST[n].Value[i] \notin LowerSet
PureLower(n) == \A i \in 1..Len(AST[n].Value) : AST[n].Value[i] \notin UpperSet
UpperKeywords == {n \in 1..Len(AST) : PureUpper(n)}
LowerKeywords == {n \in 1..Len(AST) : PureLower(n) /\ ~PureUpper(n)}
\* The instructions the casing check is to report.
ToBeFlagged ==
    IF UpperKeywords = {} \/ LowerKeywords = {}
    THEN {n \in 1..Len(AST) : ~PureUpper(n) /\ ~PureLower(n)}
    ELSE IF Cardinality(UpperKeywords) >= Cardinality(LowerKeywords)
         THEN {n \in 1..Len(AST) : ~PureUpper(n)}
         ELSE {n \in 1..Len(AST) : ~PureLower(n)}

\* C28: ConsistentInstructionCasing is emitted once for each mixed-case
\* keyword when no keyword is pure uppercase or none is pure lowercase, and
\* otherwise once for each keyword outside the majority style, uppercase being
\* the majority when the counts are equal; no other instruction has one.
C28_CasingFlagged ==
    Returned =>
        \A n \in 1..Len(AST) :
            Cardinality(RulesOn("ConsistentInstructionCasing", AST[n]))
              = IF n \in ToBeFlagged THEN 1 ELSE 0

C28_Witness ==
    /\ Returned
    /\ Cardinality(LowerKeywords) > Cardinality(UpperKeywords)
    /\ UpperKeywords # {}
    /\ \E n \in UpperKeywords : RulesOn("ConsistentInstructionCasing", AST[n]) # {}
    /\ \E n \in 1..Len(AST) :
           /\ ~PureUpper(n) /\ ~PureLower(n)
           /\ RulesOn("ConsistentInstructionCasing", AST[n]) # {}

---------------------------------------------------------------------------
(* Claims about the port range of EXPOSE.                                  *)

\* The text of a port specification before its first "/".
RECURSIVE PortText(_)
PortText(value) ==
    IF value = <<>> \/ Head(value) = "/" THEN <<>>
    ELSE <<Head(value)>> \o PortText(Tail(value))
\* The digits of a decimal integer, its sign left out.
Unsigned(text) == IF text # <<>> /\ text[1] \in {"+", "-"} THEN Tail(text) ELSE text
IsDecimalInteger(text) == Unsigned(text) # <<>> /\ AllIn(Unsigned(text), Digits)
\* The decimal integer written by text lies in [0, MaxPort].
InPortRange(text) ==
    LET significant == TrimLeft(Unsigned(text), {"0"})
    IN  IF text[1] = "-" THEN significant = <<>>
        ELSE /\ Len(significant) <= PortDigits
             /\ DecimalValue(significant) <= MaxPort
\* The n-th instruction is an EXPOSE and the range check is applied to its
\* k-th argument: no earlier argument ended the validation.
RangeChecked(n, k) ==
    /\ ToUpper(AST[n].Value) = <<"E","X","P","O","S","E">>
    /\ AST[n].HasNext
    /\ k \in 1..Len(AST[n].Next)
    /\ \A j \in 1..(k - 1) : exposeErrorLoop(AST[n], j) = exposeErrorLoop(AST[n], j + 1)
    /\ checkExposeFormat(AST[n].Next[k].Value)
\* The k-th argument of the n-th instruction is reported as out of range.
ReportedOutOfRange(n, k) ==
    \E r \in RulesOn("ExposePortOutOfRange", AST[n]) :
        ReturnedRules[r].Description[2] = AST[n].Next[k].Value

\* C29: an EXPOSE argument whose text before "/" is a decimal integer is
\* rejected with ExposePortOutOfRange exactly when the integer is outside
\* [0, 65535], and an argument whose text before "/" is not a decimal integer
\* is never rejected by the range check.
C29_PortRangeExact ==
    Returned =>
        \A n \in 1..Len(AST) : \A k \in 1..Len(AST[n].Next) :
            RangeChecked(n, k) =>
                LET text == PortText(AST[n].Next[k].Value)
                IN  ReportedOutOfRange(n, k)
                      <=> (IsDecimalInteger(text) /\ ~InPortRange(text))

---------------------------------------------------------------------------
(* Claims about the wrapper when the analysis fails.                       *)

\* The analyzer ended with an error: it printed no score line.
AnalyzerFailed == results # <<>> /\ Last(results).Err

\* C30: when the analyzer cannot analyse the Dockerfile, the wrapper ends with
\* result=failed and a non-zero exit code whatever its inputs are, the default
\* minimum-score of 0 included.
C30_FailsWhenNotAnalysed ==
    (WrapperEnded /\ AnalyzerFailed)
    => /\ HasOutput("result")
       /\ OutputValue("result") = Failed
       /\ action.exit # 0
=============================================================================
